---- MODULE Spec2Model ----
(***************************************************************************)
(* A model of embody-ble's protocol layer.                                 *)
(*                                                                         *)
(*   FileReceiver (src/src/embodyble/utils.py): the chunked file download, *)
(*   with the application thread (get_file, stop_listening, listen), the   *)
(*   reader's thread delivering response_message_received, and one thread  *)
(*   per threading.Timer running _on_chunk_timeout / _on_overall_timeout.  *)
(*   Every statement that reads or writes shared state without holding     *)
(*   _timer_lock is a step of its own. A "with self._timer_lock" block is  *)
(*   one step: the lock makes the blocks mutually exclusive, and the only  *)
(*   shared field a block touches that is also accessed outside the lock   *)
(*   is receive, which the blocks only read and set to False.              *)
(*                                                                         *)
(*   _MessageSender (src/src/embodyble/embodyble.py): send_async tasks on  *)
(*   the asyncio event loop, and the reader's notification callback that   *)
(*   latches response messages.                                            *)
(***************************************************************************)
EXTENDS Integers, Sequences, FiniteSets, TLC

\* ---------------------------------------------------------------- bounds
MaxLen == 2          \* largest file_length, chunk offset and len(file_data) drawn
MaxTransfers == 1    \* accepted get_file calls
MaxChunks == 2       \* FileDataChunk messages delivered
MaxSends == 2        \* send_async calls
MaxMsgs == 3         \* messages decoded from notifications
MaxBurst == 2        \* messages carried by one notification
MaxConnects == 2     \* connect calls
MaxCalls == 2        \* request calls on the session
MaxStream == 4       \* bytes delivered to on_uart_tx_data, over all notifications
MaxListeners == 2    \* listeners registered per category
MaxObservers == 2    \* AttributeChangedListener instances
MaxNotifications == 2  \* notification callbacks followed step by step

\* threading.Timer objects created: two by each accepted get_file, one by each chunk
\* accepted get_file calls where a transfer follows another on the same receiver
MaxReuse == MaxTransfers + 1
MaxTimers == 2 * MaxReuse + MaxChunks

\* Python's None, for object references (timer handles, callbacks, streams)
None == 0

DefaultChunkTimeout == 10

FileLengths == 0..MaxLen
Offsets == 0..MaxLen
ChunkLens == 1..MaxLen
ChunkTimeouts == {DefaultChunkTimeout}
OverallTimeouts == {None, 60}
TimerIds == 1..MaxTimers
TransferIds == 1..MaxReuse
Tasks == 1..MaxSends
MsgIds == 1..MaxMsgs

\* msg_type values on both sides of the response boundary 0x80
ResponseMin == 128
MsgTypes == {127, 128}
DefaultSendTimeout == 5
SendTimeouts == {None, DefaultSendTimeout}

\* the bytes drawn: the two message types at the response boundary (as a
\* length they exceed every stream drawn) and the frame lengths 2 and 3 (as a
\* type they are unknown)
Bytes == {2, 3, 127, 128}

VARIABLES
    \* FileReceiver's fields
    filename, file_length, file_position, datastream, done_callback,
    progress_callback, receive, chunk_timeout, overall_timeout,
    chunk_timer, overall_timer,
    \* the threading.Timer objects: kind, state, the transfer that armed them
    timers,
    \* EmbodyBle's response listener registration of the receiver
    listening,
    \* the application thread: get_file / stop_listening / listen
    pc_app, app_args, gf_result,
    \* the reader's thread inside response_message_received
    pc_rx, rx_msg,
    \* what the collaborators observed
    done_calls, progress_calls, written, sent,
    \* bookkeeping of the run
    xfers, nchunks, rx_next, rx_dropped, stopped,
    \* _MessageSender's fields: the asyncio.Lock's holder, the asyncio.Event
    \* and the latched response
    send_lock, response_event, current_response_message,
    \* the send_async tasks: position, arguments, outcome
    pc_send, send_args, send_ret,
    \* the messages decoded so far (msg_type of each, in order of arrival)
    msgs,
    \* per task: the first response latched after its write completed
    first_resp,
    \* per task: the number of messages decoded when it took the send lock
    send_from,
    \* EmbodyBle's fields: the client, reader and sender of the connection
    \* (None, or the number of the connect that created them), its event loop
    ble_client, ble_reader, ble_sender, loop_running,
    \* the connect coroutine's position and the outcome of the last session call
    pc_connect, ble_ret,
    \* the requests handed to the event loop for the transport
    ble_io,
    \* connects started, connects completed, request calls made
    nconnects, nconnected, ncalls,
    \* _MessageReader: the number of registered message and response listeners
    \* (listener i is the i-th of its list), the message listener executor's
    \* queue and whether it was shut down
    n_msg_listeners, n_rsp_listeners, executor, rd_stopped,
    \* the calls made to the listeners, and whether on_uart_tx_data raised
    msg_calls, rsp_calls, rd_raised,
    \* the error types passed to ErrorListener.on_error by the reader
    error_calls,
    \* the stream so far: all bytes delivered, the messages decoded from them,
    \* the number of notifications, the length of the first one, whether
    \* every one carried a single byte, whether a listener raised during the
    \* latest notification or worker task
    rd_fed, rd_decoded, rd_nfeeds, rd_first, rd_bytewise, rd_listener_raised,
    \* AttributeChangedMessageListener: its list of observers; the message of
    \* the latest message_received, the callback invocations it made and how
    \* it ended
    attr_listeners, attr_msg, attr_calls, attr_result,
    \* _MessageReader, one notification callback followed step by step: the
    \* number of registered BLE message listeners; where the transport's
    \* callback is and what it is dispatching; the queue of each executor and
    \* the task its worker is running; the listener invocations made; whether
    \* a callback raised to the transport
    n_ble_listeners, cb_pc, cb, pools, worker_at, notified, cb_raised

fieldVars == <<filename, file_length, file_position, datastream, done_callback,
               progress_callback, chunk_timeout, overall_timeout>>
timerVars == <<chunk_timer, overall_timer, timers>>
appVars == <<pc_app, app_args, gf_result>>
rxVars == <<pc_rx, rx_msg>>
obsVars == <<done_calls, progress_calls, written, sent>>
histVars == <<xfers, nchunks, rx_next, rx_dropped, stopped>>
fileVars == <<fieldVars, receive, timerVars, listening, appVars, rxVars,
              obsVars, histVars>>

sendVars == <<send_lock, response_event, current_response_message,
              pc_send, send_args, send_ret, msgs, first_resp, send_from>>

sessVars == <<ble_client, ble_reader, ble_sender, loop_running, pc_connect,
              ble_ret, ble_io, nconnects, nconnected, ncalls>>

readVars == <<n_msg_listeners, n_rsp_listeners, executor, rd_stopped,
              msg_calls, rsp_calls, rd_raised, error_calls,
              rd_fed, rd_decoded, rd_nfeeds, rd_first, rd_bytewise,
              rd_listener_raised>>

attrVars == <<attr_listeners, attr_msg, attr_calls, attr_result>>

dispVars == <<n_ble_listeners, cb_pc, cb, pools, worker_at, notified, cb_raised>>

vars == <<fileVars, sendVars, sessVars, readVars, attrVars, dispVars>>

\* file names: "" before the first transfer, then the name given to the n-th
\* transfer's file
NoName == <<>>
FileName(n) == <<n>>

\* rx_next: the offset that continues the chunks delivered since get_file in
\* order, OutOfOrder once a delivered chunk had another offset
OutOfOrder == 0 - 1

\* a thread outside its handler holds no arguments
NoArgs == <<>>

\* the outcome of a send_async call: still running, or returned a value
\* (None or the id of a message) through one of its return statements
Pending == [st |-> "pending", value |-> None, via |-> "none"]
Returned(v, via) == [st |-> "returned", value |-> v, via |-> via]
Raised(via) == [st |-> "raised", value |-> None, via |-> via]

\* the outcome of a call on the session: which call, and whether it raised
NoCall == [op |-> "none", outcome |-> "none"]
RaisedError(op) == [op |-> op, outcome |-> "EmbodyBleError"]
Submitted(op) == [op |-> op, outcome |-> "submitted"]

\* first_resp marker: a response was already latched when the write completed
Early == 0 - 1
NoMsg == <<>>

\* ---------------------------------------------------------------- timers

NoTimer == [kind |-> "none", st |-> "unused", xf |-> 0]

UsedTimers == {t \in TimerIds : timers[t].st # "unused"}

\* the listener categories; the first and the last are dispatched through an
\* executor of their own
Categories == {"message", "response", "ble"}
Executors == {"message", "ble"}

\* no notification dispatched yet, no task being run
NoDispatch == [kind |-> "none", id |-> 0, i |-> 0, n0 |-> 0, handed |-> <<>>,
               aborted |-> FALSE]
NoTask == [listener |-> 0, id |-> 0]

\* the id the next threading.Timer(...) gets
NewTimer == Cardinality(UsedTimers) + 1

\* Timer.cancel(): stops a timer that has not yet run its function
TimerCancel(tm, h) ==
    IF h = None THEN tm
    ELSE [tm EXCEPT ![h].st = IF @ = "armed" THEN "cancelled" ELSE @]

\* a cancellation that forgets the overall timer
CancelTimersUnsafe_ChunkOnly(tm) == TimerCancel(tm, chunk_timer)

\* _cancel_timers_unsafe: both timers cancelled (their handles become None)
CancelTimersUnsafe(tm) == TimerCancel(TimerCancel(tm, chunk_timer), overall_timer)

\* a chunk timer restart that also cancels the overall timer
StartChunkTimer_CancelsOverall ==
    /\ timers' = [CancelTimersUnsafe(timers) EXCEPT
                    ![NewTimer] = [kind |-> "chunk", st |-> "armed", xf |-> xfers]]
    /\ chunk_timer' = NewTimer
    /\ overall_timer' = None

\* _start_chunk_timer, the body of its "with self._timer_lock"
StartChunkTimer ==
    /\ timers' = [TimerCancel(timers, chunk_timer) EXCEPT
                    ![NewTimer] = [kind |-> "chunk", st |-> "armed", xf |-> xfers]]
    /\ chunk_timer' = NewTimer
    /\ UNCHANGED overall_timer

\* _start_overall_timer, the body of its "with self._timer_lock"
StartOverallTimer ==
    /\ IF overall_timeout # None
       THEN /\ timers' = [timers EXCEPT
                    ![NewTimer] = [kind |-> "overall", st |-> "armed", xf |-> xfers]]
            /\ overall_timer' = NewTimer
       ELSE UNCHANGED <<timers, overall_timer>>
    /\ UNCHANGED chunk_timer

\* _cancel_all_timers
CancelAllTimers ==
    /\ timers' = CancelTimersUnsafe(timers)
    /\ chunk_timer' = None
    /\ overall_timer' = None

\* ------------------------------------------------------------- callbacks

DoneCall(err) ==
    [cb |-> done_callback, name |-> filename, bytes |-> file_position,
     stream |-> datastream, err |-> err]

\* "if self.done_callback is not None: self.done_callback(...)"
InvokeDone(err) ==
    done_calls' = IF done_callback # None
                  THEN Append(done_calls, DoneCall(err))
                  ELSE done_calls

\* ------------------------------------------------------------------ Init

Init ==
    /\ filename = NoName
    /\ file_length = 0
    /\ file_position = 0
    /\ datastream = None
    /\ done_callback = None
    /\ progress_callback = None
    /\ receive = FALSE
    /\ chunk_timeout = DefaultChunkTimeout
    /\ overall_timeout = None
    /\ chunk_timer = None
    /\ overall_timer = None
    /\ timers = [t \in TimerIds |-> NoTimer]
    /\ listening = TRUE
    /\ pc_app = "idle"
    /\ app_args = NoArgs
    /\ gf_result = <<>>
    /\ pc_rx = "idle"
    /\ rx_msg = NoMsg
    /\ done_calls = <<>>
    /\ progress_calls = <<>>
    /\ written = [s \in TransferIds |-> 0]
    /\ sent = <<>>
    /\ xfers = 0
    /\ nchunks = 0
    /\ rx_next = 0
    /\ rx_dropped = "none"
    /\ stopped = {}
    /\ send_lock = None
    /\ response_event = FALSE
    /\ current_response_message = None
    /\ pc_send = [t \in Tasks |-> "idle"]
    /\ send_args = [t \in Tasks |-> NoArgs]
    /\ send_ret = [t \in Tasks |-> Pending]
    /\ msgs = <<>>
    /\ first_resp = [t \in Tasks |-> None]
    /\ send_from = [t \in Tasks |-> 0]
    /\ ble_client = None
    /\ ble_reader = None
    /\ ble_sender = None
    /\ loop_running = TRUE
    /\ pc_connect = "idle"
    /\ ble_ret = NoCall
    /\ ble_io = <<>>
    /\ nconnects = 0
    /\ nconnected = 0
    /\ ncalls = 0
    /\ n_msg_listeners = 0
    /\ n_rsp_listeners = 0
    /\ executor = <<>>
    /\ rd_stopped = FALSE
    /\ msg_calls = <<>>
    /\ rsp_calls = <<>>
    /\ rd_raised = FALSE
    /\ error_calls = <<>>
    /\ rd_fed = <<>>
    /\ rd_decoded = <<>>
    /\ rd_nfeeds = 0
    /\ rd_first = 0
    /\ rd_bytewise = TRUE
    /\ rd_listener_raised = FALSE
    /\ attr_listeners = <<>>
    /\ attr_msg = NoMsg
    /\ attr_calls = <<>>
    /\ attr_result = "none"
    /\ n_ble_listeners = 0
    /\ cb_pc = "idle"
    /\ cb = NoDispatch
    /\ pools = [c \in Executors |-> <<>>]
    /\ worker_at = [c \in Executors |-> NoTask]
    /\ notified = <<>>
    /\ cb_raised = FALSE

\* ------------------------------------------- application thread: get_file

\* a get_file that never finds a transfer in flight
GetFileBusy_Never == FALSE

\* "if self.receive is True"
GetFileBusy == receive = TRUE

\* the optional arguments drawn: all given, only done_callback, none
Optionals(n) ==
    { [datastream |-> n, done_callback |-> n, progress_callback |-> n],
      [datastream |-> None, done_callback |-> n, progress_callback |-> None],
      [datastream |-> None, done_callback |-> None, progress_callback |-> None] }

\* the arguments of the call that would start transfer n: every call passes its
\* own callbacks and stream (named by n), or None
GetFileArgs(n) ==
    { [filename |-> FileName(n), file_length |-> len,
       datastream |-> opt.datastream, done_callback |-> opt.done_callback,
       progress_callback |-> opt.progress_callback,
       chunk_timeout |-> ct, overall_timeout |-> ot] :
      len \in FileLengths, opt \in Optionals(n),
      ct \in ChunkTimeouts, ot \in OverallTimeouts }

\* get_file(filename, file_length, datastream, done_callback, progress_callback,
\* chunk_timeout, overall_timeout): "if self.receive is True: return -1"
GetFileCallUpTo(n) ==
    /\ pc_app = "idle"
    /\ receive = TRUE \/ xfers < n
    /\ \E args \in GetFileArgs(xfers + 1) :
          IF GetFileBusy
          THEN /\ gf_result' = <<-1>>
               /\ UNCHANGED <<pc_app, app_args>>
          ELSE /\ gf_result' = <<>>
               /\ pc_app' = "gf_init"
               /\ app_args' = args
    /\ UNCHANGED <<fieldVars, receive, timerVars, listening, rxVars,
                   obsVars, histVars>>
    /\ UNCHANGED <<sendVars, sessVars, readVars, attrVars, dispVars>>

\* the calls that start at most MaxTransfers transfers
GetFileCall == GetFileCallUpTo(MaxTransfers)

\* the calls of an application that fetches one file more
GetFileCallAgain == GetFileCallUpTo(MaxReuse)

\* self.filename = filename ... self._overall_timeout = overall_timeout
GetFileInit ==
    /\ pc_app = "gf_init"
    /\ filename' = app_args.filename
    /\ file_length' = app_args.file_length
    /\ file_position' = 0
    /\ datastream' = app_args.datastream
    /\ done_callback' = app_args.done_callback
    /\ progress_callback' = app_args.progress_callback
    /\ chunk_timeout' = app_args.chunk_timeout
    /\ overall_timeout' = app_args.overall_timeout
    /\ xfers' = xfers + 1
    /\ rx_next' = 0
    /\ rx_dropped' = "none"
    /\ pc_app' = "gf_receive"
    /\ UNCHANGED <<receive, timerVars, listening, app_args, gf_result,
                   rxVars, obsVars, nchunks, stopped>>
    /\ UNCHANGED <<sendVars, sessVars, readVars, attrVars, dispVars>>

\* self.receive = True
GetFileReceive ==
    /\ pc_app = "gf_receive"
    /\ receive' = TRUE
    /\ pc_app' = "gf_chunk_timer"
    /\ UNCHANGED <<fieldVars, timerVars, listening, app_args, gf_result,
                   rxVars, obsVars, histVars>>
    /\ UNCHANGED <<sendVars, sessVars, readVars, attrVars, dispVars>>

\* self._start_chunk_timer()
GetFileChunkTimer ==
    /\ pc_app = "gf_chunk_timer"
    /\ StartChunkTimer
    /\ pc_app' = "gf_overall_timer"
    /\ UNCHANGED <<fieldVars, receive, listening, app_args, gf_result,
                   rxVars, obsVars, histVars>>
    /\ UNCHANGED <<sendVars, sessVars, readVars, attrVars, dispVars>>

\* "if overall_timeout is not None: self._start_overall_timer()"
GetFileOverallTimer ==
    /\ pc_app = "gf_overall_timer"
    /\ IF app_args.overall_timeout # None
       THEN StartOverallTimer
       ELSE UNCHANGED timerVars
    /\ pc_app' = "gf_send"
    /\ UNCHANGED <<fieldVars, receive, listening, app_args, gf_result,
                   rxVars, obsVars, histVars>>
    /\ UNCHANGED <<sendVars, sessVars, readVars, attrVars, dispVars>>

\* self.embody_ble.send(codec.GetFile(...)); return 0
GetFileSend ==
    /\ pc_app = "gf_send"
    /\ sent' = Append(sent, app_args.filename)
    /\ gf_result' = <<0>>
    /\ pc_app' = "idle"
    /\ app_args' = NoArgs
    /\ UNCHANGED <<fieldVars, receive, timerVars, listening,
                   rxVars, done_calls, progress_calls, written, histVars>>
    /\ UNCHANGED <<sendVars, sessVars, readVars, attrVars, dispVars>>

\* the outcome of a get_file that left with the exception of embody_ble.send
SendFailed == 0 - 2

\* self.embody_ble.send(...) raises (EmbodyBleError("Sender not initialized")
\* without a connection): the exception leaves get_file
GetFileSendRaises ==
    /\ pc_app = "gf_send"
    /\ gf_result' = <<SendFailed>>
    /\ pc_app' = "idle"
    /\ app_args' = NoArgs
    /\ UNCHANGED <<fieldVars, receive, timerVars, listening,
                   rxVars, obsVars, histVars>>
    /\ UNCHANGED <<sendVars, sessVars, readVars, attrVars, dispVars>>

\* ------------------------- application thread: stop_listening and listen

\* stop_listening(), called to abort the transfer in flight:
\* self._cancel_all_timers()
StopCancel ==
    /\ pc_app = "idle"
    /\ listening
    /\ receive
    /\ CancelAllTimers
    /\ stopped' = stopped \cup {xfers}
    /\ pc_app' = "sl_receive"
    /\ UNCHANGED <<fieldVars, receive, listening, app_args, gf_result,
                   rxVars, obsVars, xfers, nchunks, rx_next, rx_dropped>>
    /\ UNCHANGED <<sendVars, sessVars, readVars, attrVars, dispVars>>

\* self.receive = False
StopReceive ==
    /\ pc_app = "sl_receive"
    /\ receive' = FALSE
    /\ pc_app' = "sl_discard"
    /\ UNCHANGED <<fieldVars, timerVars, listening, app_args, gf_result,
                   rxVars, obsVars, histVars>>
    /\ UNCHANGED <<sendVars, sessVars, readVars, attrVars, dispVars>>

\* self.embody_ble.discard_response_message_listener(self), and the return
StopDiscard ==
    /\ pc_app = "sl_discard"
    /\ listening' = FALSE
    /\ pc_app' = "idle"
    /\ UNCHANGED <<fieldVars, receive, timerVars, app_args, gf_result,
                   rxVars, obsVars, histVars>>
    /\ UNCHANGED <<sendVars, sessVars, readVars, attrVars, dispVars>>

\* listen(): self.embody_ble.add_response_message_listener(self)
Listen ==
    /\ pc_app = "idle"
    /\ ~listening
    /\ listening' = TRUE
    /\ UNCHANGED <<fieldVars, receive, timerVars, appVars, rxVars, obsVars, histVars>>
    /\ UNCHANGED <<sendVars, sessVars, readVars, attrVars, dispVars>>

\* ------------------------- reader's thread: response_message_received

\* the FileDataChunk messages the device may send
Chunks == [offset : Offsets, len : ChunkLens]

\* the reader hands a FileDataChunk to the registered receiver;
\* "if self.receive is False: return" (rx_dropped then tells whether the
\* ignored chunk's offset was file_position)
RxReceive ==
    /\ pc_rx = "idle"
    /\ listening
    /\ nchunks < MaxChunks
    /\ \E msg \in Chunks :
          /\ rx_msg' = IF receive = FALSE THEN NoMsg ELSE msg
          /\ rx_next' = IF msg.offset = rx_next THEN rx_next + msg.len ELSE OutOfOrder
          /\ rx_dropped' = IF receive # FALSE THEN rx_dropped
                            ELSE IF msg.offset = file_position THEN "in_order"
                            ELSE "other"
    /\ nchunks' = nchunks + 1
    /\ pc_rx' = IF receive = FALSE THEN "idle" ELSE "reset"
    /\ UNCHANGED <<fieldVars, receive, timerVars, listening, appVars, obsVars,
                   xfers, stopped>>
    /\ UNCHANGED <<sendVars, sessVars, readVars, attrVars, dispVars>>

\* an order test that only rejects chunks behind file_position
OutOfOrderChunk_OnlyBehind == file_position > rx_msg.offset

\* "if self.file_position != filechunk.offset"
OutOfOrderChunk == file_position # rx_msg.offset

\* "self._reset_chunk_timer()", then the order test
RxReset ==
    /\ pc_rx = "reset"
    /\ StartChunkTimer
    /\ pc_rx' = IF OutOfOrderChunk THEN "err_cancel" ELSE "write"
    /\ UNCHANGED <<fieldVars, receive, listening, appVars, rx_msg, obsVars, histVars>>
    /\ UNCHANGED <<sendVars, sessVars, readVars, attrVars, dispVars>>

\* out of order: self._cancel_all_timers()
RxErrCancel ==
    /\ pc_rx = "err_cancel"
    /\ CancelAllTimers
    /\ pc_rx' = "err_callback"
    /\ UNCHANGED <<fieldVars, receive, listening, appVars, rx_msg, obsVars, histVars>>
    /\ UNCHANGED <<sendVars, sessVars, readVars, attrVars, dispVars>>

\* out of order: done_callback(filename, file_position, datastream, Exception(...))
RxErrCallback ==
    /\ pc_rx = "err_callback"
    /\ InvokeDone("order")
    /\ pc_rx' = "err_receive"
    /\ UNCHANGED <<fieldVars, receive, timerVars, listening, appVars, rx_msg,
                   progress_calls, written, sent, histVars>>
    /\ UNCHANGED <<sendVars, sessVars, readVars, attrVars, dispVars>>

\* out of order: self.receive = False; return
RxErrReceive ==
    /\ pc_rx = "err_receive"
    /\ receive' = FALSE
    /\ pc_rx' = "idle"
    /\ rx_msg' = NoMsg
    /\ UNCHANGED <<fieldVars, timerVars, listening, appVars, obsVars, histVars>>
    /\ UNCHANGED <<sendVars, sessVars, readVars, attrVars, dispVars>>

\* "if self.datastream is not None: self.datastream.write(filechunk.file_data)"
RxWrite ==
    /\ pc_rx = "write"
    /\ written' = IF datastream # None
                  THEN [written EXCEPT ![datastream] = @ + rx_msg.len]
                  ELSE written
    /\ pc_rx' = "position"
    /\ UNCHANGED <<fieldVars, receive, timerVars, listening, appVars, rx_msg,
                   done_calls, progress_calls, sent, histVars>>
    /\ UNCHANGED <<sendVars, sessVars, readVars, attrVars, dispVars>>

\* a position update that assigns the chunk's length instead of adding it
RxPosition_Assigns ==
    /\ pc_rx = "position"
    /\ file_position' = rx_msg.len
    /\ pc_rx' = "progress"
    /\ UNCHANGED <<filename, file_length, datastream, done_callback, progress_callback,
                   chunk_timeout, overall_timeout, receive, timerVars, listening,
                   appVars, rx_msg, obsVars, histVars>>
    /\ UNCHANGED <<sendVars, sessVars, readVars, attrVars, dispVars>>

\* self.file_position += len(filechunk.file_data)
RxPosition ==
    /\ pc_rx = "position"
    /\ file_position' = file_position + rx_msg.len
    /\ pc_rx' = "progress"
    /\ UNCHANGED <<filename, file_length, datastream, done_callback, progress_callback,
                   chunk_timeout, overall_timeout, receive, timerVars, listening,
                   appVars, rx_msg, obsVars, histVars>>
    /\ UNCHANGED <<sendVars, sessVars, readVars, attrVars, dispVars>>

\* a completion test that misses the overshoot
TransferDone_OnlyExact == file_position = file_length

\* a completion test that misses the exact length
TransferDone_OnlyLonger == file_position > file_length

\* done: file_position > file_length or file_position == file_length
TransferDone == file_position > file_length \/ file_position = file_length

\* the progress handed to progress_callback: 100.0 * (file_position / file_length),
\* or 0.0 for an empty file, kept as the fraction num/den
Progress ==
    IF file_length > 0
    THEN [num |-> 100 * file_position, den |-> file_length]
    ELSE [num |-> 0, den |-> 1]

\* the completion tests and "if self.progress_callback is not None: ...";
\* a chunk that does not complete the file returns here
RxProgress ==
    /\ pc_rx = "progress"
    /\ progress_calls' = IF progress_callback # None
                         THEN Append(progress_calls,
                                     [cb |-> progress_callback, name |-> filename,
                                      progress |-> Progress])
                         ELSE progress_calls
    /\ IF TransferDone
       THEN /\ pc_rx' = "fin_cancel"
            /\ UNCHANGED rx_msg
       ELSE /\ pc_rx' = "idle"
            /\ rx_msg' = NoMsg
    /\ UNCHANGED <<fieldVars, receive, timerVars, listening, appVars,
                   done_calls, written, sent, histVars>>
    /\ UNCHANGED <<sendVars, sessVars, readVars, attrVars, dispVars>>

\* done: self._cancel_all_timers()
RxFinCancel ==
    /\ pc_rx = "fin_cancel"
    /\ CancelAllTimers
    /\ pc_rx' = "fin_callback"
    /\ UNCHANGED <<fieldVars, receive, listening, appVars, rx_msg, obsVars, histVars>>
    /\ UNCHANGED <<sendVars, sessVars, readVars, attrVars, dispVars>>

\* done: done_callback(filename, file_position, datastream, None)
RxFinCallback ==
    /\ pc_rx = "fin_callback"
    /\ InvokeDone("none")
    /\ pc_rx' = "fin_receive"
    /\ UNCHANGED <<fieldVars, receive, timerVars, listening, appVars, rx_msg,
                   progress_calls, written, sent, histVars>>
    /\ UNCHANGED <<sendVars, sessVars, readVars, attrVars, dispVars>>

\* done: self.receive = False
RxFinReceive ==
    /\ pc_rx = "fin_receive"
    /\ receive' = FALSE
    /\ pc_rx' = "idle"
    /\ rx_msg' = NoMsg
    /\ UNCHANGED <<fieldVars, timerVars, listening, appVars, obsVars, histVars>>
    /\ UNCHANGED <<sendVars, sessVars, readVars, attrVars, dispVars>>

\* ------------------- timer threads: _on_chunk_timeout, _on_overall_timeout

\* the interval of an armed timer elapses: Timer.run finds it not cancelled and
\* goes on to call its function; a cancel() from now on no longer stops it
TimerExpire(t) ==
    /\ timers[t].st = "armed"
    /\ timers' = [timers EXCEPT ![t].st = "expired"]
    /\ UNCHANGED <<fieldVars, receive, chunk_timer, overall_timer,
                   listening, appVars, rxVars, obsVars, histVars>>
    /\ UNCHANGED <<sendVars, sessVars, readVars, attrVars, dispVars>>

\* a handler that never finds the transfer already over
TransferOver_Never == FALSE

\* "if not self.receive: return  # Transfer already completed or cancelled"
TransferOver == ~receive

\* "with self._timer_lock: if not self.receive: return;
\*  self.receive = False; self._cancel_timers_unsafe()"
HandlerEnter(t) ==
    /\ timers[t].st = "expired"
    /\ IF TransferOver
       THEN /\ timers' = [timers EXCEPT ![t].st = "done"]
            /\ UNCHANGED <<receive, chunk_timer, overall_timer>>
       ELSE /\ receive' = FALSE
            /\ timers' = [CancelTimersUnsafe(timers) EXCEPT ![t].st = "callback"]
            /\ chunk_timer' = None
            /\ overall_timer' = None
    /\ UNCHANGED <<fieldVars, listening, appVars, rxVars, obsVars, histVars>>
    /\ UNCHANGED <<sendVars, sessVars, readVars, attrVars, dispVars>>

\* the TimeoutError each handler builds
TimeoutErr(t) == IF timers[t].kind = "chunk" THEN "chunk_timeout" ELSE "overall_timeout"

\* "if self.done_callback is not None: self.done_callback(..., TimeoutError(...))",
\* and the handler's return
HandlerCallback(t) ==
    /\ timers[t].st = "callback"
    /\ InvokeDone(TimeoutErr(t))
    /\ timers' = [timers EXCEPT ![t].st = "done"]
    /\ UNCHANGED <<fieldVars, receive, chunk_timer, overall_timer,
                   listening, appVars, rxVars, progress_calls, written, sent, histVars>>
    /\ UNCHANGED <<sendVars, sessVars, readVars, attrVars, dispVars>>

\* --------------------------------------------- a done_callback that raises

\* out of order: done_callback raises; the exception leaves
\* response_message_received before "self.receive = False"
RxErrCallbackRaises ==
    /\ pc_rx = "err_callback"
    /\ done_callback # None
    /\ InvokeDone("order")
    /\ pc_rx' = "idle"
    /\ rx_msg' = NoMsg
    /\ UNCHANGED <<fieldVars, receive, timerVars, listening, appVars,
                   progress_calls, written, sent, histVars>>
    /\ UNCHANGED <<sendVars, sessVars, readVars, attrVars, dispVars>>

\* done: done_callback raises; the exception leaves response_message_received
\* before "self.receive = False"
RxFinCallbackRaises ==
    /\ pc_rx = "fin_callback"
    /\ done_callback # None
    /\ InvokeDone("none")
    /\ pc_rx' = "idle"
    /\ rx_msg' = NoMsg
    /\ UNCHANGED <<fieldVars, receive, timerVars, listening, appVars,
                   progress_calls, written, sent, histVars>>
    /\ UNCHANGED <<sendVars, sessVars, readVars, attrVars, dispVars>>

\* a timeout handler's done_callback raises: the exception ends the timer's
\* thread, after the handler has set receive False and cancelled the timers
HandlerCallbackRaises(t) ==
    /\ timers[t].st = "callback"
    /\ done_callback # None
    /\ InvokeDone(TimeoutErr(t))
    /\ timers' = [timers EXCEPT ![t].st = "done"]
    /\ UNCHANGED <<fieldVars, receive, chunk_timer, overall_timer,
                   listening, appVars, rxVars, progress_calls, written, sent, histVars>>
    /\ UNCHANGED <<sendVars, sessVars, readVars, attrVars, dispVars>>

\* ------------------------------------------------------- _MessageSender

\* a lock that never makes a task wait
SendLockFree_Always == TRUE

\* "async with self.__send_lock": the lock is free
SendLockFree == send_lock = None

\* a caller starts send_async(msg, wait_for_response, timeout)
SendCall(t) ==
    /\ pc_send[t] = "idle"
    /\ \E w \in BOOLEAN, to \in SendTimeouts :
          send_args' = [send_args EXCEPT
                           ![t] = [wait_for_response |-> w, timeout |-> to]]
    /\ pc_send' = [pc_send EXCEPT ![t] = "acquire"]
    /\ UNCHANGED <<send_lock, response_event, current_response_message,
                   send_ret, msgs, first_resp>>
    /\ UNCHANGED send_from
    /\ UNCHANGED <<fileVars, sessVars, readVars, attrVars, dispVars>>

\* a send that takes the lock and writes without clearing what is latched
SendStart_KeepsLatched(t) ==
    /\ pc_send[t] = "acquire"
    /\ SendLockFree
    /\ send_lock' = t
    /\ first_resp' = [first_resp EXCEPT ![t] = None]
    /\ send_from' = [send_from EXCEPT ![t] = Len(msgs)]
    /\ pc_send' = [pc_send EXCEPT ![t] = "write"]
    /\ UNCHANGED <<response_event, current_response_message, send_args, send_ret, msgs>>
    /\ UNCHANGED <<fileVars, sessVars, readVars, attrVars, dispVars>>

\* the task takes the lock, clears the event and the latched response and
\* starts the GATT write (runs without yielding up to the await)
SendStart(t) ==
    /\ pc_send[t] = "acquire"
    /\ SendLockFree
    /\ send_lock' = t
    /\ response_event' = FALSE
    /\ current_response_message' = None
    /\ first_resp' = [first_resp EXCEPT ![t] = None]
    /\ send_from' = [send_from EXCEPT ![t] = Len(msgs)]
    /\ pc_send' = [pc_send EXCEPT ![t] = "write"]
    /\ UNCHANGED <<send_args, send_ret, msgs>>
    /\ UNCHANGED <<fileVars, sessVars, readVars, attrVars, dispVars>>

\* write_gatt_char completed: wait for the event, or return what is latched
WriteDone(t) ==
    /\ pc_send[t] = "write"
    /\ IF send_args[t].wait_for_response
       THEN /\ pc_send' = [pc_send EXCEPT ![t] = "wait"]
            /\ first_resp' = [first_resp EXCEPT
                                 ![t] = IF response_event THEN Early ELSE None]
            /\ UNCHANGED <<send_lock, send_ret>>
       ELSE /\ pc_send' = [pc_send EXCEPT ![t] = "done"]
            /\ send_ret' = [send_ret EXCEPT
                               ![t] = Returned(current_response_message, "nowait")]
            /\ send_lock' = None
            /\ UNCHANGED first_resp
    /\ UNCHANGED <<response_event, current_response_message, send_args, msgs>>
    /\ UNCHANGED send_from
    /\ UNCHANGED <<fileVars, sessVars, readVars, attrVars, dispVars>>

\* a failed write that returns while still holding the lock
WriteFail_KeepsLock(t) ==
    /\ pc_send[t] = "write"
    /\ pc_send' = [pc_send EXCEPT ![t] = "done"]
    /\ send_ret' = [send_ret EXCEPT ![t] = Returned(None, "write_error")]
    /\ UNCHANGED <<send_lock, response_event, current_response_message,
                   send_args, msgs, first_resp>>
    /\ UNCHANGED send_from
    /\ UNCHANGED <<fileVars, sessVars, readVars, attrVars, dispVars>>

\* write_gatt_char raised: "except Exception ... return None"
WriteFail(t) ==
    /\ pc_send[t] = "write"
    /\ pc_send' = [pc_send EXCEPT ![t] = "done"]
    /\ send_ret' = [send_ret EXCEPT ![t] = Returned(None, "write_error")]
    /\ send_lock' = None
    /\ UNCHANGED <<response_event, current_response_message, send_args, msgs,
                   first_resp>>
    /\ UNCHANGED send_from
    /\ UNCHANGED <<fileVars, sessVars, readVars, attrVars, dispVars>>

\* _MessageSender.response_message_received(msg), msg being message i; the
\* state carries the event, the latched message and the waiting task's first
\* response
ResponseMessageReceived(st, i) ==
    [event |-> TRUE, current |-> i,
     first |-> IF st.first = None THEN i ELSE st.first]

\* "if msg.msg_type < 0x80": a message for the message listeners, else a
\* response handed to the response listeners
HandleIncomingMessage(st, ms, i) ==
    IF ms[i] < ResponseMin THEN st ELSE ResponseMessageReceived(st, i)

\* the decode loop of on_uart_tx_data over the messages i.. of ms
RECURSIVE OnUartTxData(_, _, _)
OnUartTxData(st, ms, i) ==
    IF i > Len(ms) THEN st
    ELSE OnUartTxData(HandleIncomingMessage(st, ms, i), ms, i + 1)

Bursts == UNION { [1..n -> MsgTypes] : n \in 1..MaxBurst }

\* the task inside "await asyncio.wait_for(...)", if any
Waiter == IF send_lock # None /\ pc_send[send_lock] = "wait" THEN send_lock ELSE None

\* a notification carrying one or more messages is decoded on the event loop
Notify ==
    \E burst \in Bursts :
       /\ Len(msgs) + Len(burst) <= MaxMsgs
       /\ LET ms == msgs \o burst
              st0 == [event |-> response_event,
                      current |-> current_response_message,
                      first |-> IF Waiter = None THEN None ELSE first_resp[Waiter]]
              st1 == OnUartTxData(st0, ms, Len(msgs) + 1)
          IN  /\ msgs' = ms
              /\ response_event' = st1.event
              /\ current_response_message' = st1.current
              /\ first_resp' = IF Waiter = None THEN first_resp
                               ELSE [first_resp EXCEPT ![Waiter] = st1.first]
       /\ UNCHANGED <<send_lock, pc_send, send_args, send_ret>>
       /\ UNCHANGED send_from
       /\ UNCHANGED <<fileVars, sessVars, readVars, attrVars, dispVars>>

\* the event was set: wait_for returns and the task returns the latched message
WaitDone(t) ==
    /\ pc_send[t] = "wait"
    /\ response_event
    /\ pc_send' = [pc_send EXCEPT ![t] = "done"]
    /\ send_ret' = [send_ret EXCEPT
                       ![t] = Returned(current_response_message, "response")]
    /\ send_lock' = None
    /\ UNCHANGED <<response_event, current_response_message, send_args, msgs,
                   first_resp>>
    /\ UNCHANGED send_from
    /\ UNCHANGED <<fileVars, sessVars, readVars, attrVars, dispVars>>

\* the timeout of wait_for elapses with the event not set
WaitTimeout(t) ==
    /\ pc_send[t] = "wait"
    /\ ~response_event
    /\ send_args[t].timeout # None
    /\ pc_send' = [pc_send EXCEPT ![t] = "timedout"]
    /\ UNCHANGED <<send_lock, response_event, current_response_message,
                   send_args, send_ret, msgs, first_resp>>
    /\ UNCHANGED send_from
    /\ UNCHANGED <<fileVars, sessVars, readVars, attrVars, dispVars>>

\* a timeout that reaches the caller as an exception
TimeoutResult_Raises == Raised("timeout")

\* "except asyncio.TimeoutError: ... return None"
TimeoutResult == Returned(None, "timeout")

\* the timed-out task resumes; had the event been set in between, wait_for
\* either still raises TimeoutError or returns, depending on the asyncio version
WaitTimedOut(t) ==
    /\ pc_send[t] = "timedout"
    /\ \/ send_ret' = [send_ret EXCEPT ![t] = TimeoutResult]
       \/ /\ response_event
          /\ send_ret' = [send_ret EXCEPT
                             ![t] = Returned(current_response_message, "response")]
    /\ pc_send' = [pc_send EXCEPT ![t] = "done"]
    /\ send_lock' = None
    /\ UNCHANGED <<response_event, current_response_message, send_args, msgs,
                   first_resp>>
    /\ UNCHANGED send_from
    /\ UNCHANGED <<fileVars, sessVars, readVars, attrVars, dispVars>>

\* ------------------------------------------------------------ EmbodyBle

\* __async_connect up to "await self.__client.connect()": the device is not
\* found (EmbodyBleError, the fields stay), or a new client is created
ConnectFind ==
    /\ pc_connect = "idle"
    /\ loop_running
    /\ nconnects < MaxConnects
    /\ nconnects' = nconnects + 1
    /\ \/ /\ ble_ret' = RaisedError("connect")
          /\ UNCHANGED <<ble_client, pc_connect>>
       \/ /\ ble_client' = nconnects + 1
          /\ pc_connect' = "connecting"
          /\ UNCHANGED ble_ret
    /\ UNCHANGED <<ble_reader, ble_sender, loop_running, ble_io, nconnected, ncalls>>
    /\ UNCHANGED <<fileVars, sendVars, readVars, attrVars, dispVars>>

\* the client's connect raised: the new client stays, reader and sender are
\* those of the connection before
ConnectFail ==
    /\ pc_connect = "connecting"
    /\ pc_connect' = "idle"
    /\ ble_ret' = [op |-> "connect", outcome |-> "transport_error"]
    /\ UNCHANGED <<ble_client, ble_reader, ble_sender, loop_running, ble_io,
                   nconnects, nconnected, ncalls>>
    /\ UNCHANGED <<fileVars, sendVars, readVars, attrVars, dispVars>>

\* the client connected: a reader and a sender are created for it (also when
\* shutdown has meanwhile asked the loop to stop: the loop finishes the
\* iteration it is in)
ConnectDone ==
    /\ pc_connect = "connecting"
    /\ pc_connect' = "idle"
    /\ ble_reader' = ble_client
    /\ ble_sender' = ble_client
    /\ nconnected' = nconnected + 1
    /\ ble_ret' = [op |-> "connect", outcome |-> "connected"]
    /\ UNCHANGED <<ble_client, loop_running, ble_io, nconnects, ncalls>>
    /\ UNCHANGED <<fileVars, sendVars, readVars, attrVars, dispVars>>

\* shutdown: the sender and the reader are dropped, the loop is stopped
Shutdown ==
    /\ loop_running
    /\ ble_sender' = None
    /\ ble_reader' = None
    /\ loop_running' = FALSE
    /\ UNCHANGED <<ble_client, pc_connect, ble_ret, ble_io, nconnects,
                   nconnected, ncalls>>
    /\ UNCHANGED <<fileVars, sendVars, readVars, attrVars, dispVars>>

\* the checks that guard the request operations
NoSender_Never == FALSE

\* "if not self.__sender"
NoSender == ble_sender = None

\* "if not self.__client"
NoClient == ble_client = None

\* "if not self.__reader"
NoReader == ble_reader = None

SenderOps == {"send", "send_async"}
ClientOps == {"write_ble_attribute", "request_ble_attribute"}
ReaderOps == {"start_ble_notify", "stop_ble_notify"}
RequestOps == SenderOps \cup ClientOps \cup ReaderOps

\* the object a request operation needs is missing
Missing(op) ==
    IF op \in SenderOps THEN NoSender
    ELSE IF op \in ClientOps THEN NoClient
    ELSE NoReader

\* send, send_async, write_ble_attribute, request_ble_attribute,
\* start_ble_notify, stop_ble_notify: raise, or hand the request to the loop
Request(op) ==
    /\ ncalls < MaxCalls
    /\ ncalls' = ncalls + 1
    /\ IF Missing(op)
       THEN /\ ble_ret' = RaisedError(op)
            /\ UNCHANGED ble_io
       ELSE /\ ble_ret' = Submitted(op)
            /\ ble_io' = Append(ble_io, op)
    /\ UNCHANGED <<ble_client, ble_reader, ble_sender, loop_running, pc_connect,
                   nconnects, nconnected>>
    /\ UNCHANGED <<fileVars, sendVars, readVars, attrVars, dispVars>>

\* -------------------------------------------------------- _MessageReader

\* the codec's framing, as far as the reader depends on it: a frame is its
\* message type, its total length, then the rest of its bytes
HeaderLen == 2
KnownTypes == {127, 128}

\* codec.decode(bytes): the message at the head of b, or the exception raised
Decode(b) ==
    IF Len(b) < HeaderLen THEN [err |-> "insufficient", msg_type |-> 0, length |-> 0]
    ELSE IF b[1] \notin KnownTypes THEN [err |-> "unknown", msg_type |-> 0, length |-> 0]
    ELSE IF b[2] < HeaderLen THEN [err |-> "malformed", msg_type |-> 0, length |-> 0]
    ELSE IF Len(b) < b[2] THEN [err |-> "insufficient", msg_type |-> 0, length |-> 0]
    ELSE [err |-> "none", msg_type |-> b[1], length |-> b[2]]

\* a notify helper without its try/except
NotifyCatches_Not == FALSE

\* "try: listener.response_message_received(msg) except Exception"
NotifyCatches == TRUE

\* __notify_rsp_message_listener(listener, msg); the listeners in bad raise
NotifyRspMessageListener(st, l, m, bad) ==
    [st EXCEPT !.rsp_calls = Append(@, [listener |-> l, msg |-> m]),
               !.raised = (l \in bad) /\ ~NotifyCatches,
               !.listener_raised = @ \/ (l \in bad)]

\* __handle_response_message: the loop over the response listeners from l on
RECURSIVE HandleResponseMessage(_, _, _, _)
HandleResponseMessage(st, l, m, bad) ==
    IF st.raised \/ l > n_rsp_listeners THEN st
    ELSE HandleResponseMessage(NotifyRspMessageListener(st, l, m, bad), l + 1, m, bad)

\* __handle_message: one executor.submit per message listener, from l on;
\* submit raises once the executor was shut down
RECURSIVE HandleMessage(_, _, _)
HandleMessage(st, l, m) ==
    IF st.raised \/ l > n_msg_listeners THEN st
    ELSE IF rd_stopped THEN [st EXCEPT !.raised = TRUE]
    ELSE HandleMessage([st EXCEPT !.executor = Append(@, [listener |-> l, msg |-> m])],
                       l + 1, m)

\* a routing that sends the boundary type to the message listeners
IsEventMessage_Inclusive(m) == m.msg_type < ResponseMin + 1

\* "if msg.msg_type < 0x80"
IsEventMessage(m) == m.msg_type < ResponseMin

\* __handle_incoming_message
HandleIncoming(st, m, bad) ==
    IF IsEventMessage(m) THEN HandleMessage(st, 1, m)
    ELSE HandleResponseMessage(st, 1, m, bad)

\* a cursor that advances one byte per message
Advance_OneByte(pos, m) == pos + 1

\* "pos += msg.length"
Advance(pos, m) == pos + m.length

\* the while loop of on_uart_tx_data from pos on; base is the number of bytes
\* delivered by earlier notifications
RECURSIVE UartLoop(_, _, _, _, _)
UartLoop(st, data, pos, base, bad) ==
    IF st.raised \/ ~(pos < Len(data)) THEN st
    ELSE LET r == Decode(SubSeq(data, pos + 1, Len(data)))
             m == [msg_type |-> r.msg_type, length |-> r.length, at |-> base + pos]
         IN  IF r.err # "none" THEN [st EXCEPT !.raised = TRUE]
             ELSE UartLoop(HandleIncoming([st EXCEPT !.decoded = Append(@, m)], m, bad),
                           data, Advance(pos, m), base, bad)

\* an on_uart_tx_data without its try/except
UartCatches_Not == FALSE

\* "try: ... except Exception as e: logging.warning(...)"
UartCatches == TRUE

\* the sets of response listeners that may raise while data is dispatched:
\* any, when data makes the reader call response listeners at all
Raisers(st, data) ==
    IF UartLoop(st, data, 0, Len(rd_fed), {}).rsp_calls = st.rsp_calls THEN {{}}
    ELSE SUBSET (1..n_rsp_listeners)

\* a notification arrives: on_uart_tx_data(_, data)
Feed ==
    \E n \in 1..(MaxStream - Len(rd_fed)) :
    \E data \in [1..n -> Bytes] :
       LET st0 == [decoded |-> rd_decoded, executor |-> executor,
                   rsp_calls |-> rsp_calls, raised |-> FALSE,
                   listener_raised |-> FALSE]
       IN  \E bad \in Raisers(st0, data) :
       LET st1 == UartLoop(st0, data, 0, Len(rd_fed), bad)
       IN  /\ rd_decoded' = st1.decoded
           /\ executor' = st1.executor
           /\ rsp_calls' = st1.rsp_calls
           /\ rd_listener_raised' = st1.listener_raised
           /\ rd_raised' = (st1.raised /\ ~UartCatches)
           /\ rd_fed' = rd_fed \o data
           /\ rd_nfeeds' = rd_nfeeds + 1
           /\ rd_first' = IF rd_nfeeds = 0 THEN n ELSE rd_first
           /\ rd_bytewise' = (rd_bytewise /\ n = 1)
           /\ UNCHANGED <<n_msg_listeners, n_rsp_listeners, rd_stopped, msg_calls,
                          error_calls>>
           /\ UNCHANGED <<fileVars, sendVars, sessVars, attrVars, dispVars>>

\* the executor's single worker runs the oldest submitted task:
\* __notify_message_listener(listener, msg), the listener raising or not
Worker ==
    /\ executor # <<>>
    /\ executor' = Tail(executor)
    /\ msg_calls' = Append(msg_calls, Head(executor))
    /\ rd_listener_raised' \in BOOLEAN
    /\ UNCHANGED <<n_msg_listeners, n_rsp_listeners, rd_stopped, rsp_calls,
                   error_calls, rd_raised, rd_fed, rd_decoded, rd_nfeeds, rd_first, rd_bytewise>>
    /\ UNCHANGED <<fileVars, sendVars, sessVars, attrVars, dispVars>>

\* EmbodyBle.add_message_listener: the list is the one the reader iterates
AddMessageListener ==
    /\ n_msg_listeners < MaxListeners
    /\ n_msg_listeners' = n_msg_listeners + 1
    /\ UNCHANGED <<n_rsp_listeners, executor, rd_stopped, msg_calls, rsp_calls,
                   error_calls, rd_raised, rd_fed, rd_decoded, rd_nfeeds, rd_first,
                   rd_bytewise, rd_listener_raised>>
    /\ UNCHANGED <<fileVars, sendVars, sessVars, attrVars, dispVars>>

\* _MessageReader.add_response_message_listener
AddResponseMessageListener ==
    /\ n_rsp_listeners < MaxListeners
    /\ n_rsp_listeners' = n_rsp_listeners + 1
    /\ UNCHANGED <<n_msg_listeners, executor, rd_stopped, msg_calls, rsp_calls,
                   error_calls, rd_raised, rd_fed, rd_decoded, rd_nfeeds, rd_first,
                   rd_bytewise, rd_listener_raised>>
    /\ UNCHANGED <<fileVars, sendVars, sessVars, attrVars, dispVars>>

\* _MessageReader.stop: the executors are shut down, queued tasks still run
ReaderStop ==
    /\ ~rd_stopped
    /\ rd_stopped' = TRUE
    /\ UNCHANGED <<n_msg_listeners, n_rsp_listeners, executor, msg_calls, rsp_calls,
                   error_calls, rd_raised, rd_fed, rd_decoded, rd_nfeeds, rd_first,
                   rd_bytewise, rd_listener_raised>>
    /\ UNCHANGED <<fileVars, sendVars, sessVars, attrVars, dispVars>>

\* ------------------------- _MessageReader, one notification step by step

\* len(self.__message_listeners), len(self.__response_message_listeners),
\* len(self.__ble_message_listeners): the lists as they are now
ListenersOf(kind) ==
    CASE kind = "message" -> n_msg_listeners
      [] kind = "response" -> n_rsp_listeners
      [] kind = "ble" -> n_ble_listeners
      [] OTHER -> 0

\* EmbodyBle.add_ble_message_listener: the list is the one the reader iterates
AddBleMessageListener ==
    /\ n_ble_listeners < MaxListeners
    /\ n_ble_listeners' = n_ble_listeners + 1
    /\ UNCHANGED <<cb_pc, cb, pools, worker_at, notified, cb_raised>>
    /\ UNCHANGED <<fileVars, sendVars, sessVars, readVars, attrVars>>

\* the transport calls on_uart_tx_data with one message (an event message or a
\* response message) or on_ble_message_received: the handler of the category is
\* entered; "if len(listeners) == 0: return"
NotificationArrives(kind) ==
    /\ cb_pc = "idle"
    /\ cb.id < MaxNotifications
    /\ cb' = [kind |-> kind, id |-> cb.id + 1, i |-> 1, n0 |-> ListenersOf(kind),
              handed |-> <<>>, aborted |-> FALSE]
    /\ cb_pc' = IF ListenersOf(kind) = 0 THEN "idle" ELSE "loop"
    /\ UNCHANGED <<n_ble_listeners, pools, worker_at, notified, cb_raised>>
    /\ UNCHANGED <<fileVars, sendVars, sessVars, readVars, attrVars>>

\* on_ble_message_received calls __handle_ble_message with no try/except
BleCatches == FALSE

\* whether an exception raised inside the handler is caught by the callback
Catches(kind) == IF kind = "ble" THEN BleCatches ELSE UartCatches

\* one turn of "for listener in <the list>": the iterator ends when its index
\* has reached the length the list has now; a response listener is called on
\* the spot, a message or BLE listener is handed to its executor with submit,
\* which raises RuntimeError once the executor was shut down
DispatchStep ==
    /\ cb_pc = "loop"
    /\ IF cb.i > ListenersOf(cb.kind)
       THEN /\ cb_pc' = "idle"
            /\ UNCHANGED <<cb, pools, notified, cb_raised>>
       ELSE IF cb.kind = "response"
       THEN /\ cb_pc' = "in_listener"
            /\ cb' = [cb EXCEPT !.handed = Append(@, cb.i)]
            /\ notified' = Append(notified, [kind |-> cb.kind, listener |-> cb.i,
                                             id |-> cb.id])
            /\ UNCHANGED <<pools, cb_raised>>
       ELSE IF rd_stopped
       THEN /\ cb_pc' = "idle"
            /\ cb' = [cb EXCEPT !.aborted = TRUE]
            /\ cb_raised' = (cb_raised \/ ~Catches(cb.kind))
            /\ UNCHANGED <<pools, notified>>
       ELSE /\ cb_pc' = "loop"
            /\ cb' = [cb EXCEPT !.handed = Append(@, cb.i), !.i = @ + 1]
            /\ pools' = [pools EXCEPT ![cb.kind] =
                             Append(@, [listener |-> cb.i, id |-> cb.id])]
            /\ UNCHANGED <<notified, cb_raised>>
    /\ UNCHANGED <<n_ble_listeners, worker_at>>
    /\ UNCHANGED <<fileVars, sendVars, sessVars, readVars, attrVars>>

\* the response listener called by __notify_rsp_message_listener returns, or
\* raises and is caught there; a listener that blocks never takes this step
ListenerReturns ==
    /\ cb_pc = "in_listener"
    /\ cb_pc' = "loop"
    /\ cb' = [cb EXCEPT !.i = @ + 1]
    /\ UNCHANGED <<n_ble_listeners, pools, worker_at, notified, cb_raised>>
    /\ UNCHANGED <<fileVars, sendVars, sessVars, readVars, attrVars>>

\* the single worker of an executor takes the oldest submitted task and calls
\* the listener: __notify_message_listener / __notify_ble_message_listener
WorkerTakes(c) ==
    /\ worker_at[c] = NoTask
    /\ pools[c] # <<>>
    /\ worker_at' = [worker_at EXCEPT ![c] = Head(pools[c])]
    /\ pools' = [pools EXCEPT ![c] = Tail(@)]
    /\ notified' = Append(notified, [kind |-> c, listener |-> Head(pools[c]).listener,
                                     id |-> Head(pools[c]).id])
    /\ UNCHANGED <<n_ble_listeners, cb_pc, cb, cb_raised>>
    /\ UNCHANGED <<fileVars, sendVars, sessVars, readVars, attrVars>>

\* the listener run by the worker returns, or raises and is caught; a listener
\* that blocks never takes this step
WorkerReturns(c) ==
    /\ worker_at[c] # NoTask
    /\ worker_at' = [worker_at EXCEPT ![c] = NoTask]
    /\ UNCHANGED <<n_ble_listeners, cb_pc, cb, pools, notified, cb_raised>>
    /\ UNCHANGED <<fileVars, sendVars, sessVars, readVars, attrVars>>

\* ------------------------------------ AttributeChangedMessageListener

\* the callbacks of the AttributeChangedListener interface, each with the
\* number of arguments it requires
InterfaceArity ==
    [on_battery_level_changed |-> 1, on_imu_changed |-> 2,
     on_belt_on_body_changed |-> 1, on_breathing_rate_changed |-> 1,
     on_heart_rate_variability_changed |-> 1, on_heart_rate_changed |-> 1,
     on_heartrate_interval_changed |-> 1, on_charge_state_changed |-> 1,
     on_sleep_mode_changed |-> 1, on_imu_raw_changed |-> 6,
     on_acc_changed |-> 3, on_gyr_changed |-> 3, on_recording_changed |-> 1,
     on_temperature_changed |-> 1, on_leds_changed |-> 6,
     on_firmware_update_changed |-> 1, on_diagnostics_changed |-> 8,
     on_afe_settings_changed |-> 12, on_ecgs_ppgs_changed |-> 2]

InterfaceCallbacks == DOMAIN InterfaceArity

\* the message classes and attribute classes message_received tests for;
\* "Other" stands for any class it does not test for
AttrValues ==
    {"BatteryLevelAttribute", "ImuAttribute", "BeltOnBodyStateAttribute",
     "BreathRateAttribute", "HeartRateVariabilityAttribute", "HeartrateAttribute",
     "HeartRateIntervalAttribute", "ChargeStateAttribute", "SleepModeAttribute",
     "ImuRawAttribute", "AccRawAttribute", "GyroRawAttribute",
     "MeasurementDeactivatedAttribute", "TemperatureAttribute", "LedsAttribute",
     "FirmwareUpdateProgressAttribute", "DiagnosticsAttribute",
     "AfeSettingsAttribute", "AfeSettingsAllAttribute", "Other"}

AttrMessages ==
    [msg : {"AttributeChanged"}, value : AttrValues]
    \cup [msg : {"RawPulseChanged"},
          value : {"PulseRawAttribute", "PulseRawAllAttribute", "Other"}]
    \cup [msg : {"RawPulseListChanged", "Other"}, value : {"Other"}]

NoCallback == [cb |-> "none", nargs |-> 0]
Invoke(c, n) == [cb |-> c, nargs |-> n]

\* the isinstance chain of message_received on an AttributeChanged message:
\* the callback invoked and the number of arguments passed
AttributeCallback(v) ==
    CASE v = "BatteryLevelAttribute" -> Invoke("on_battery_level_changed", 1)
      [] v = "ImuAttribute" -> Invoke("on_imu_changed", 2)
      [] v = "BeltOnBodyStateAttribute" -> Invoke("on_belt_on_body_changed", 1)
      [] v = "BreathRateAttribute" -> Invoke("on_breathing_rate_changed", 1)
      [] v = "HeartRateVariabilityAttribute" -> Invoke("on_heart_rate_variability_changed", 1)
      [] v = "HeartrateAttribute" -> Invoke("on_heart_rate_changed", 1)
      [] v = "HeartRateIntervalAttribute" -> Invoke("on_heartrate_interval_changed", 1)
      [] v = "ChargeStateAttribute" -> Invoke("on_charge_state_changed", 1)
      [] v = "SleepModeAttribute" -> Invoke("on_sleep_mode_changed", 1)
      [] v = "ImuRawAttribute" -> Invoke("on_imu_raw_changed", 6)
      [] v = "AccRawAttribute" -> Invoke("on_acc_changed", 3)
      [] v = "GyroRawAttribute" -> Invoke("on_gyr_changed", 3)
      [] v = "MeasurementDeactivatedAttribute" -> Invoke("on_recording_changed", 1)
      [] v = "TemperatureAttribute" -> Invoke("on_temperature_changed", 1)
      [] v = "LedsAttribute" -> Invoke("on_leds_changed", 6)
      [] v = "FirmwareUpdateProgressAttribute" -> Invoke("on_firmware_update_changed", 1)
      [] v = "DiagnosticsAttribute" -> Invoke("on_diagnostics_changed", 8)
      [] v = "AfeSettingsAttribute" -> Invoke("on_afe_settings_changed", 8)
      [] v = "AfeSettingsAllAttribute" -> Invoke("on_afe_settings_changed", 12)
      [] OTHER -> NoCallback

\* the branches for RawPulseChanged and RawPulseListChanged
RawPulseCallback(m) ==
    IF m.msg = "RawPulseListChanged" THEN Invoke("on_raw_pulse_changed", 2)
    ELSE IF m.value \in {"PulseRawAttribute", "PulseRawAllAttribute"}
         THEN Invoke("on_raw_pulse_changed", 2)
         ELSE NoCallback

\* the callback message_received invokes on every observer for message m
CallbackFor(m) ==
    IF m.msg = "AttributeChanged" THEN AttributeCallback(m.value)
    ELSE IF m.msg \in {"RawPulseChanged", "RawPulseListChanged"} THEN RawPulseCallback(m)
    ELSE NoCallback

\* listener.<cb>(...) on an observer that implements the interface: the
\* attribute lookup, the binding of the arguments, then the observer's code,
\* which raises for the observers in bad
CallOutcome(o, c, bad) ==
    IF c.cb \notin InterfaceCallbacks THEN "AttributeError"
    ELSE IF c.nargs # InterfaceArity[c.cb] THEN "TypeError"
    ELSE IF o \in bad THEN "raised"
    ELSE "returned"

\* "for listener in self.__message_listeners: listener.<cb>(...)" from the
\* i-th entry on; an exception leaves the loop
RECURSIVE NotifyObservers(_, _, _, _)
NotifyObservers(calls, i, c, bad) ==
    IF i > Len(attr_listeners) THEN calls
    ELSE LET o == attr_listeners[i]
             out == CallOutcome(o, c, bad)
             calls2 == Append(calls, [listener |-> o, cb |-> c.cb, outcome |-> out])
         IN  IF out = "returned" THEN NotifyObservers(calls2, i + 1, c, bad)
             ELSE calls2

\* AttributeChangedMessageListener.message_received(msg)
MessageReceived ==
    \E m \in AttrMessages, bad \in SUBSET (1..MaxObservers) :
       LET c == CallbackFor(m)
           calls == IF c = NoCallback THEN <<>> ELSE NotifyObservers(<<>>, 1, c, bad)
       IN  /\ attr_msg' = m
           /\ attr_calls' = calls
           /\ attr_result' = IF calls # <<>> /\ calls[Len(calls)].outcome # "returned"
                             THEN calls[Len(calls)].outcome ELSE "returned"
           /\ UNCHANGED attr_listeners
           /\ UNCHANGED <<fileVars, sendVars, sessVars, readVars, dispVars>>

\* add_attr_changed_listener(listener)
AddAttrChangedListener ==
    \E o \in 1..MaxObservers :
       /\ Len(attr_listeners) < MaxListeners
       /\ attr_listeners' = Append(attr_listeners, o)
       /\ UNCHANGED <<attr_msg, attr_calls, attr_result>>
       /\ UNCHANGED <<fileVars, sendVars, sessVars, readVars, dispVars>>

\* ------------------------------------------------------- specifications

AppNext ==
    \/ GetFileCall \/ GetFileInit \/ GetFileReceive
    \/ GetFileChunkTimer \/ GetFileOverallTimer \/ GetFileSend
    \/ StopCancel \/ StopReceive \/ StopDiscard \/ Listen

RxNext ==
    \/ RxReceive \/ RxReset
    \/ RxErrCancel \/ RxErrCallback \/ RxErrReceive
    \/ RxWrite \/ RxPosition \/ RxProgress
    \/ RxFinCancel \/ RxFinCallback \/ RxFinReceive

TimerNext(t) ==
    \/ TimerExpire(t) \/ HandlerEnter(t) \/ HandlerCallback(t)

\* every interleaving of the application thread, the reader's thread and the
\* timer threads
Next ==
    \/ AppNext
    \/ RxNext
    \/ \E t \in TimerIds : TimerNext(t)

Spec == Init /\ [][Next]_vars

AppIdle == pc_app = "idle"
RxIdle == pc_rx = "idle"
TimerRunning(t) == timers[t].st \in {"expired", "callback"}
TimersIdle == \A t \in TimerIds : ~TimerRunning(t)

\* the handlers run one at a time, each to completion (the calls of a
\* single-threaded caller, as in the unit tests)
NextSeq ==
    \/ RxIdle /\ TimersIdle /\ AppNext
    \/ AppIdle /\ TimersIdle /\ RxNext
    \/ \E t \in TimerIds :
          /\ AppIdle /\ RxIdle
          /\ \A u \in TimerIds \ {t} : ~TimerRunning(u)
          /\ TimerNext(t)

SpecSeq == Init /\ [][NextSeq]_vars

\* the handlers run one at a time, each to completion, and a done_callback
\* may raise instead of returning
NextRaise ==
    \/ NextSeq
    \/ AppIdle /\ TimersIdle /\ (RxErrCallbackRaises \/ RxFinCallbackRaises)
    \/ \E t \in TimerIds :
          /\ AppIdle /\ RxIdle
          /\ \A u \in TimerIds \ {t} : ~TimerRunning(u)
          /\ HandlerCallbackRaises(t)

SpecRaise == Init /\ [][NextRaise]_vars

\* the handlers run one at a time, each to completion, and the send of
\* get_file may fail
NextFail ==
    \/ NextSeq
    \/ RxIdle /\ TimersIdle /\ GetFileSendRaises

SpecFail == Init /\ [][NextFail]_vars

HandlerActive(t) == timers[t].st = "callback"

\* the handlers run one at a time, each to completion, but the one timer
\* whose interval has elapsed may get to run its handler late, after other
\* handlers (cancel() no longer stops it)
NextLate ==
    \/ RxIdle /\ (\A t \in TimerIds : ~HandlerActive(t)) /\ AppNext
    \/ AppIdle /\ (\A t \in TimerIds : ~HandlerActive(t)) /\ RxNext
    \/ \E t \in TimerIds :
          /\ AppIdle /\ RxIdle
          /\ \A u \in TimerIds \ {t} : ~TimerRunning(u)
          /\ TimerNext(t)

SpecLate == Init /\ [][NextLate]_vars

\* the application thread of a caller that fetches one file after another
AppNextAgain ==
    \/ GetFileCallAgain \/ GetFileInit \/ GetFileReceive
    \/ GetFileChunkTimer \/ GetFileOverallTimer \/ GetFileSend
    \/ StopCancel \/ StopReceive \/ StopDiscard \/ Listen

\* the chunk path has invoked done_callback and not yet run the
\* "self.receive = False" that follows it
InDoneCallback == pc_rx \in {"fin_receive", "err_receive"}

\* one file after another, the handlers run one at a time and a timer whose
\* interval has elapsed may run late, as in NextLate; but a done_callback
\* invoked by the chunk path may take long, and the application thread and the
\* timer handlers run while it is in progress
NextAgain ==
    \/ /\ RxIdle \/ InDoneCallback
       /\ \A t \in TimerIds : ~HandlerActive(t)
       /\ AppNextAgain
    \/ AppIdle /\ (\A t \in TimerIds : ~HandlerActive(t)) /\ RxNext
    \/ \E t \in TimerIds :
          /\ AppIdle
          /\ RxIdle \/ InDoneCallback
          /\ \A u \in TimerIds \ {t} : ~TimerRunning(u)
          /\ TimerNext(t)

SpecAgain == Init /\ [][NextAgain]_vars

SendNext(t) ==
    \/ SendCall(t) \/ SendStart(t) \/ WriteDone(t) \/ WriteFail(t)
    \/ WaitDone(t) \/ WaitTimeout(t) \/ WaitTimedOut(t)

\* the event loop: the send_async tasks and the notification callback
NextSend ==
    \/ \E t \in Tasks : SendNext(t)
    \/ Notify

SpecSend == Init /\ [][NextSend]_vars

\* the event loop runs every task that can go on: an asyncio.Lock wakes its
\* waiters in turn, the transport write returns or raises, a set event wakes
\* its waiter and the timer of wait_for fires
FairSend ==
    \A t \in Tasks :
       /\ SF_vars(SendStart(t))
       /\ WF_vars(WriteDone(t) \/ WriteFail(t))
       /\ WF_vars(WaitDone(t))
       /\ WF_vars(WaitTimeout(t))
       /\ WF_vars(WaitTimedOut(t))

SpecSendFair == SpecSend /\ FairSend

\* the session facade: connects, shutdown and the request operations
NextBle ==
    \/ ConnectFind \/ ConnectFail \/ ConnectDone
    \/ Shutdown
    \/ \E op \in RequestOps : Request(op)

SpecBle == Init /\ [][NextBle]_vars

\* the reader: registrations, notifications, the executor's worker, stop
NextRead ==
    \/ AddMessageListener \/ AddResponseMessageListener
    \/ Feed \/ Worker \/ ReaderStop

SpecRead == Init /\ [][NextRead]_vars

\* the attribute listener: registrations and messages
\* the transport's callback thread, the executors' workers and the threads
\* that register listeners or stop the reader
NextDispatch ==
    \/ AddMessageListener \/ AddResponseMessageListener \/ AddBleMessageListener
    \/ ReaderStop
    \/ \E kind \in Categories : NotificationArrives(kind)
    \/ DispatchStep
    \/ ListenerReturns
    \/ \E c \in Executors : WorkerTakes(c) \/ WorkerReturns(c)

SpecDispatch == Init /\ [][NextDispatch]_vars

NextAttr == AddAttrChangedListener \/ MessageReceived

SpecAttr == Init /\ [][NextAttr]_vars


\* ---------------------------------------------------------------- claims

Last(q) == q[Len(q)]

\* the invocations of one transfer's done_callback
CallsOf(c) == SelectSeq(done_calls, LAMBDA r : r.cb = c)
NumCalls(c) == Len(CallsOf(c))

TimeoutErrors == {"chunk_timeout", "overall_timeout"}

\* C1: for every interleaving of response_message_received, _on_chunk_timeout
\* and _on_overall_timeout, a transfer's done_callback is invoked at most once.
C1_DoneAtMostOnce == \A c \in TransferIds : NumCalls(c) <= 1

\* C2: get_file called while receive is True returns -1 and changes nothing:
\* the fields, the timers and what was sent, written and called back stay as
\* they were.
C2_BusyRejected ==
    [][ (pc_app = "idle" /\ receive = TRUE
           /\ (pc_app' = "gf_init" \/ gf_result' # gf_result))
        => /\ pc_app' = "idle"
           /\ gf_result' = <<-1>>
           /\ UNCHANGED <<fieldVars, receive, timerVars, obsVars, app_args>> ]_vars

C2_Witness == pc_app = "idle" /\ receive = TRUE /\ gf_result = <<-1>>

\* no timer of the current transfer has expired and stop_listening was not
\* called on it
NotInterrupted ==
    /\ xfers \notin stopped
    /\ \A t \in TimerIds :
          timers[t].xf = xfers => timers[t].st \in {"armed", "cancelled"}

Quiescent == AppIdle /\ RxIdle /\ TimersIdle

InOrderComplete ==
    /\ Quiescent
    /\ xfers > 0
    /\ file_length > 0
    /\ rx_next = file_length
    /\ NotInterrupted

\* C3: after an accepted get_file(name, L), chunks that each continue the
\* previous one (offset = bytes delivered so far) and sum to exactly L leave
\* file_position = L and the receiver not receiving, with done_callback invoked
\* exactly once, with bytes_received = L and no error.
C3_InOrderCompletes ==
    InOrderComplete =>
        /\ file_position = file_length
        /\ receive = FALSE
        /\ done_callback # None =>
              CallsOf(done_callback) =
                 << [cb |-> done_callback, name |-> filename, bytes |-> file_length,
                     stream |-> datastream, err |-> "none"] >>

C3_Witness == InOrderComplete /\ done_callback # None /\ nchunks = 2 /\ file_length = 2

ErrPath == {"err_cancel", "err_callback", "err_receive"}

\* C4: in flight, a chunk whose offset differs from file_position invokes
\* done_callback exactly once with an error, leaves file_position and the sink
\* as they were and ends the transfer; a chunk delivered while no transfer is
\* in flight (so also the one that follows with the right offset) is ignored.
C4_OutOfOrderAborts ==
    [][ /\ (pc_rx = "reset" /\ pc_rx' = "write") => rx_msg.offset = file_position
        /\ pc_rx \in ErrPath =>
              /\ file_position' = file_position
              /\ written' = written
              /\ progress_calls' = progress_calls
        /\ pc_rx = "err_receive" =>
              /\ receive' = FALSE
              /\ pc_rx' = "idle"
              /\ done_callback # None =>
                    /\ NumCalls(done_callback) = 1
                    /\ Last(done_calls) = DoneCall("order")
        /\ (pc_rx = "idle" /\ nchunks' # nchunks /\ receive = FALSE) =>
              /\ pc_rx' = "idle"
              /\ UNCHANGED <<fieldVars, receive, timerVars, obsVars>> ]_vars

C4_Witness ==
    /\ Quiescent
    /\ receive = FALSE
    /\ done_calls # <<>>
    /\ Last(done_calls).err = "order"
    /\ Last(done_calls).bytes = file_position
    /\ rx_dropped = "in_order"
    /\ written = [s \in TransferIds |-> 0]

\* C5: when the chunk timer expires on a transfer in flight, done_callback is
\* invoked exactly once, with a TimeoutError and the current file_position,
\* receive becomes False and both timers are cancelled.
C5_ChunkTimeout ==
    [][ \A t \in TimerIds :
          (timers[t].kind = "chunk" /\ timers[t].st = "callback"
             /\ timers'[t].st = "done")
          => /\ receive' = FALSE
             /\ chunk_timer' = None
             /\ overall_timer' = None
             /\ \A u \in TimerIds : timers'[u].st # "armed"
             /\ done_callback # None =>
                   /\ done_calls' = Append(done_calls, DoneCall("chunk_timeout"))
                   /\ Len(SelectSeq(done_calls', LAMBDA r : r.cb = done_callback)) = 1
      ]_vars

C5_Witness ==
    /\ Quiescent
    /\ done_calls # <<>>
    /\ Last(done_calls).err = "chunk_timeout"
    /\ receive = FALSE

OverallTimersOf(k) ==
    {t \in TimerIds : timers[t].kind = "overall" /\ timers[t].xf = k}

\* C6: with overall_timeout configured, get_file arms the overall timer once and
\* it stays armed, untouched by chunk arrivals, for as long as the transfer is
\* in flight; its expiry ends the transfer with a TimeoutError.
C6_OverallTimer ==
    [][ /\ \A k \in TransferIds : Cardinality(OverallTimersOf(k)) <= 1
        /\ (Quiescent /\ receive = TRUE /\ overall_timeout # None) =>
              /\ overall_timer # None
              /\ timers[overall_timer] =
                    [kind |-> "overall", st |-> "armed", xf |-> xfers]
        /\ (pc_rx \in {"reset", "write", "position", "progress"}
              \/ (pc_rx = "idle" /\ nchunks' # nchunks)) =>
              /\ overall_timer' = overall_timer
              /\ \A t \in TimerIds :
                    timers[t].kind = "overall" => timers'[t] = timers[t]
        /\ \A t \in TimerIds :
              (timers[t].kind = "overall" /\ timers[t].st = "callback"
                 /\ timers'[t].st = "done")
              => /\ receive' = FALSE
                 /\ done_callback # None =>
                       done_calls' = Append(done_calls, DoneCall("overall_timeout"))
      ]_vars

C6_Witness ==
    /\ Quiescent
    /\ done_calls # <<>>
    /\ Last(done_calls).err = "overall_timeout"
    /\ Last(done_calls).bytes > 0
    /\ receive = FALSE

\* C7: once stop_listening has been called on a transfer in flight and has
\* returned, no timeout handler invokes that transfer's done_callback.
C7_NoCallbackAfterStop ==
    [][ (done_calls' # done_calls /\ pc_app = "idle" /\ ~listening)
        => ~ ( /\ Last(done_calls').cb \in stopped
               /\ Last(done_calls').err \in TimeoutErrors ) ]_vars

InSend(t) == pc_send[t] \in {"write", "wait", "timedout"}

\* C8: at most one send_async call is between clearing the latched response
\* and returning, and it is the one holding the send lock.
C8_SendsSerialized ==
    /\ Cardinality({t \in Tasks : InSend(t)}) <= 1
    /\ \A t \in Tasks : InSend(t) => send_lock = t

C8_Witness ==
    \E t, u \in Tasks : pc_send[t] = "wait" /\ pc_send[u] = "acquire"

\* C9: a send that waits and returns a message returns the first response
\* classified after its write, also when more responses follow before the
\* sender resumes.
C9_ReturnsFirstResponse ==
    \A t \in Tasks :
       ( /\ send_ret[t].st = "returned"
         /\ send_ret[t].via = "response"
         /\ first_resp[t] \in MsgIds )
       => send_ret[t].value = first_resp[t]

\* C10: a send_async that waits with a timeout and sees no response latched
\* within it returns None and does not raise.
C10_TimeoutReturnsNone ==
    [][ \A t \in Tasks :
          (pc_send[t] = "timedout" /\ pc_send'[t] = "done" /\ ~response_event)
          => /\ send_ret'[t].st = "returned"
             /\ send_ret'[t].value = None ]_vars

C10_Witness ==
    \E t \in Tasks :
       /\ send_ret[t] = Returned(None, "timeout")
       /\ send_args[t].wait_for_response
       /\ ~response_event

\* C11: a send_async whose transport write raises returns None, does not
\* raise and does not wait for a response, whatever wait_for_response is, and
\* leaves the send lock free for the next call.
C11_WriteFailureReturnsNone ==
    [][ \A t \in Tasks :
          (send_ret[t].st = "pending" /\ send_ret'[t].via = "write_error")
          => /\ pc_send[t] = "write"
             /\ pc_send'[t] = "done"
             /\ send_ret'[t] = Returned(None, "write_error")
             /\ send_lock' = None
             /\ SendLockFree' ]_vars

C11_Witness ==
    \E t, u \in Tasks :
       /\ send_ret[t] = Returned(None, "write_error")
       /\ send_args[t].wait_for_response
       /\ send_lock = u
       /\ pc_send[u] = "write"

Chunk == SubSeq(rd_fed', Len(rd_fed) + 1, Len(rd_fed'))

\* a step delivers a notification
FeedStep == rd_nfeeds' # rd_nfeeds

\* the part of sequence new that was appended to old
Appended(old, new) == SubSeq(new, Len(old) + 1, Len(new))

\* data is a concatenation of complete frames of known type
RECURSIVE AllValid(_)
AllValid(data) ==
    \/ data = <<>>
    \/ /\ Len(data) >= HeaderLen
       /\ data[1] \in KnownTypes
       /\ data[2] >= HeaderLen
       /\ data[2] <= Len(data)
       /\ AllValid(SubSeq(data, data[2] + 1, Len(data)))

\* the messages of a concatenation of complete frames that starts at base
RECURSIVE FrameSeq(_, _)
FrameSeq(data, base) ==
    IF data = <<>> THEN <<>>
    ELSE <<[msg_type |-> data[1], length |-> data[2], at |-> base]>>
         \o FrameSeq(SubSeq(data, data[2] + 1, Len(data)), base + data[2])

IsEvent(m) == m.msg_type < 128
IsResponse(m) == m.msg_type >= 128

\* the messages handed to listener l by the calls of sequence calls, in order
RECURSIVE MsgsTo(_, _)
MsgsTo(l, calls) ==
    IF calls = <<>> THEN <<>>
    ELSE (IF Head(calls).listener = l THEN <<Head(calls).msg>> ELSE <<>>)
         \o MsgsTo(l, Tail(calls))

RECURSIVE Select(_, _)
Select(ms, events) ==
    IF ms = <<>> THEN <<>>
    ELSE (IF IsEvent(Head(ms)) = events THEN <<Head(ms)>> ELSE <<>>)
         \o Select(Tail(ms), events)

\* C13: a notification that is a concatenation of N complete messages is
\* decoded into exactly these N messages, in order; every registered response
\* listener is called with the responses among them, in order, and for every
\* registered message listener the events among them are submitted in order
\* to the executor, whose worker delivers the submissions first in, first out.
C13_ConcatenatedMessages ==
    [][ /\ (FeedStep /\ AllValid(Chunk) /\ ~rd_stopped) =>
            LET ms == FrameSeq(Chunk, Len(rd_fed))
            IN  /\ rd_decoded' = rd_decoded \o ms
                /\ \A l \in 1..n_rsp_listeners :
                      MsgsTo(l, Appended(rsp_calls, rsp_calls')) = Select(ms, FALSE)
                /\ \A l \in 1..n_msg_listeners :
                      MsgsTo(l, Appended(executor, executor')) = Select(ms, TRUE)
                /\ Len(rsp_calls') = Len(rsp_calls) + n_rsp_listeners * Len(Select(ms, FALSE))
                /\ Len(executor') = Len(executor) + n_msg_listeners * Len(Select(ms, TRUE))
        /\ msg_calls' # msg_calls =>
              /\ msg_calls' = Append(msg_calls, Head(executor))
              /\ executor' = Tail(executor) ]_vars

\* one notification carried two events and both message listeners got both
C13_Witness ==
    /\ rd_nfeeds = 1
    /\ Len(rd_decoded) = 2
    /\ n_msg_listeners = 2
    /\ executor = <<>>
    /\ MsgsTo(1, msg_calls) = rd_decoded
    /\ MsgsTo(2, msg_calls) = rd_decoded

\* f is exactly one complete frame of known type
ValidFrame(f) ==
    /\ Len(f) >= HeaderLen
    /\ f[1] \in KnownTypes
    /\ f[2] = Len(f)

\* f is the first k bytes of a complete frame of known type, k less than its length
FramePrefix(f) ==
    /\ Len(f) >= 1
    /\ f[1] \in KnownTypes
    /\ Len(f) >= HeaderLen => (f[2] >= HeaderLen /\ f[2] > Len(f))

\* C14: a notification carrying only the first k bytes of a message dispatches
\* nothing, and once a second notification has delivered the remaining bytes
\* the message has been decoded and dispatched exactly once. (The reader has
\* no carry-over field; the claim is stated on what it dispatches.)
C14_PrefixThenRest ==
    /\ (rd_nfeeds = 1 /\ FramePrefix(rd_fed)) => rd_decoded = <<>>
    /\ (rd_nfeeds = 2 /\ rd_first < Len(rd_fed) /\ ValidFrame(rd_fed))
          => rd_decoded = FrameSeq(rd_fed, 0)

\* the messages on_uart_tx_data decodes when data arrives as one notification
SingleNotification(data) ==
    UartLoop([decoded |-> <<>>, executor |-> <<>>, rsp_calls |-> <<>>,
              raised |-> FALSE, listener_raised |-> FALSE], data, 0, 0, {}).decoded

\* C15: a stream delivered one byte per notification is decoded into the same
\* sequence of messages as the same stream delivered in a single notification.
C15_FragmentationIndependent ==
    (rd_bytewise /\ ~rd_stopped) => rd_decoded = SingleNotification(rd_fed)

\* C16: on_uart_tx_data never raises to its caller, whatever the notification
\* carries: truncated frames, unknown types, a response listener that
\* raises, a submit to an executor that was shut down.
C16_NeverRaises == rd_raised = FALSE

\* a notification of bytes that never form a frame, of unknown type, returned
C16_Witness ==
    /\ rd_nfeeds = 1
    /\ Len(rd_fed) = MaxStream
    /\ Decode(rd_fed).err = "unknown"
    /\ \A k \in 1..Len(rd_fed) : Decode(SubSeq(rd_fed, k, Len(rd_fed))).err # "none"
    /\ rd_decoded = <<>>
    /\ ~rd_raised

\* C17: a byte of unknown message type at the cursor is skipped and decoding
\* is retried one byte further, so a complete message that follows one
\* garbage byte in the same notification is decoded and dispatched.
C17_ResyncAfterGarbage ==
    (/\ rd_nfeeds = 1
     /\ ~rd_stopped
     /\ Len(rd_fed) > HeaderLen
     /\ rd_fed[1] \notin KnownTypes
     /\ ValidFrame(Tail(rd_fed)))
    => rd_decoded = FrameSeq(Tail(rd_fed), 1)

\* the number of calls of sequence calls that report error type e
RECURSIVE Count(_, _)
Count(e, calls) ==
    IF calls = <<>> THEN 0
    ELSE (IF Head(calls) = e THEN 1 ELSE 0) + Count(e, Tail(calls))

\* the maximum size of undecoded bytes kept between notifications, scaled
\* down to the streams drawn here; the reader itself defines no such limit
MaxSavedDataSize == 2

\* C18: when a first notification left more than the maximum size of
\* undecoded bytes (the head of a message whose remainder has not arrived),
\* the next notification reports buffer_overflow to the error listeners
\* exactly once.
C18_OverflowReportedOnce ==
    (/\ rd_nfeeds = 2
     /\ rd_first > MaxSavedDataSize
     /\ FramePrefix(SubSeq(rd_fed, 1, rd_first)))
    => Count("buffer_overflow", error_calls) = 1

\* the messages of the calls of sequence calls
MsgsOf(calls) == {calls[i].msg : i \in 1..Len(calls)}

\* C19: every message a notification decodes goes to one listener category:
\* a message of type below 0x80 is submitted for every message listener and
\* passed to no response listener, a message of type 0x80 or above is passed
\* to every response listener and submitted for no message listener.
C19_OneCategory ==
    [][ FeedStep =>
          LET new == Appended(rd_decoded, rd_decoded')
              submitted == Appended(executor, executor')
              responded == Appended(rsp_calls, rsp_calls')
          IN  /\ \A m \in MsgsOf(submitted) : IsEvent(m)
              /\ \A m \in MsgsOf(responded) : IsResponse(m)
              /\ MsgsOf(submitted) \cup MsgsOf(responded)
                    \subseteq {new[i] : i \in 1..Len(new)}
              /\ \A i \in 1..Len(new) :
                    /\ (IsEvent(new[i]) /\ ~rd_stopped) =>
                          \A l \in 1..n_msg_listeners :
                             [listener |-> l, msg |-> new[i]] \in
                                {submitted[j] : j \in 1..Len(submitted)}
                    /\ IsResponse(new[i]) =>
                          \A l \in 1..n_rsp_listeners :
                             [listener |-> l, msg |-> new[i]] \in
                                {responded[j] : j \in 1..Len(responded)} ]_vars

\* an event and a response arrived, each reached the listeners of its category
C19_Witness ==
    /\ n_msg_listeners > 0
    /\ n_rsp_listeners > 0
    /\ \E i, j \in 1..Len(rd_decoded) :
          /\ rd_decoded[i].msg_type = 127
          /\ rd_decoded[j].msg_type = 128
          /\ rd_decoded[i] \in MsgsOf(msg_calls)
          /\ rd_decoded[i] \notin MsgsOf(rsp_calls)
          /\ rd_decoded[j] \in MsgsOf(rsp_calls)
          /\ rd_decoded[j] \notin MsgsOf(msg_calls)

\* the complete messages of known type at the head of data, which starts at base
RECURSIVE LeadingFrames(_, _)
LeadingFrames(data, base) ==
    IF /\ Len(data) >= HeaderLen
       /\ data[1] \in KnownTypes
       /\ data[2] >= HeaderLen
       /\ data[2] <= Len(data)
    THEN <<[msg_type |-> data[1], length |-> data[2], at |-> base]>>
         \o LeadingFrames(SubSeq(data, data[2] + 1, Len(data)), base + data[2])
    ELSE <<>>

\* C20: when a response listener raises while a notification is dispatched,
\* every registered response listener is still called with every response of
\* the notification, and the reader decodes and dispatches every further
\* complete message at the head of the notification; when a message listener
\* raises in the worker, the tasks submitted for the other listeners and the
\* later messages stay queued and the task run was the oldest one.
C20_ListenerIsolation ==
    [][ /\ (FeedStep /\ rd_listener_raised' /\ ~rd_stopped) =>
            LET ms == LeadingFrames(Chunk, Len(rd_fed))
            IN  /\ rd_decoded' = rd_decoded \o ms
                /\ \A l \in 1..n_rsp_listeners :
                      MsgsTo(l, Appended(rsp_calls, rsp_calls')) = Select(ms, FALSE)
                /\ \A l \in 1..n_msg_listeners :
                      MsgsTo(l, Appended(executor, executor')) = Select(ms, TRUE)
                /\ ~rd_raised'
        /\ (msg_calls' # msg_calls /\ rd_listener_raised') =>
              /\ executor' = Tail(executor)
              /\ msg_calls' = Append(msg_calls, Head(executor))
              /\ rd_decoded' = rd_decoded ]_vars

\* a response listener raised during a notification of two responses, and
\* both response listeners were called with both
C20_Witness ==
    /\ rd_listener_raised
    /\ rd_nfeeds = 1
    /\ n_rsp_listeners = 2
    /\ Len(rd_decoded) = 2
    /\ MsgsTo(1, rsp_calls) = rd_decoded
    /\ MsgsTo(2, rsp_calls) = rd_decoded

\* ------------------------------------ claims on the attribute listener

\* C21: when an observer's callback raised during message_received, the
\* exception was caught (message_received returned) and the callback of
\* every registered observer was invoked for that message.
C21_ObserverIsolation ==
    (\E i \in 1..Len(attr_calls) : attr_calls[i].outcome = "raised")
    => /\ attr_result = "returned"
       /\ Len(attr_calls) = Len(attr_listeners)
       /\ \A i \in 1..Len(attr_calls) : attr_calls[i].listener = attr_listeners[i]

\* the messages of a known shape
KnownShape(m) ==
    \/ m.msg = "AttributeChanged" /\ m.value # "Other"
    \/ m.msg = "RawPulseChanged" /\ m.value # "Other"
    \/ m.msg = "RawPulseListChanged"

\* C22: a message_received in which no observer's own code raised has, for
\* a message of a known shape, invoked one and the same callback exactly once
\* on every registered observer, a callback the AttributeChangedListener
\* interface defines, and has returned; for any other message it has invoked
\* nothing and has returned.
C22_OneCallbackPerShape ==
    (/\ attr_result # "none"
     /\ \A i \in 1..Len(attr_calls) : attr_calls[i].outcome # "raised")
    => /\ attr_result = "returned"
       /\ IF KnownShape(attr_msg)
          THEN /\ Len(attr_calls) = Len(attr_listeners)
               /\ \A i \in 1..Len(attr_calls) :
                     /\ attr_calls[i].listener = attr_listeners[i]
                     /\ attr_calls[i].cb = attr_calls[1].cb
                     /\ attr_calls[i].cb \in InterfaceCallbacks
                     /\ attr_calls[i].outcome = "returned"
          ELSE attr_calls = <<>>

\* C23: an observer is a member of the listener collection at most once,
\* however often it was registered, and is called at most once per message.
C23_UniqueMembership ==
    /\ \A i, j \in 1..Len(attr_listeners) :
          attr_listeners[i] = attr_listeners[j] => i = j
    /\ \A o \in 1..MaxObservers :
          Cardinality({i \in 1..Len(attr_calls) : attr_calls[i].listener = o}) <= 1

\* ------------------------------------- more claims on the file receiver

\* C24: an in-order chunk that takes file_position beyond file_length
\* completes the transfer as a success: the chunk goes on to the completion
\* path, which invokes done_callback with no error and the overshooting
\* file_position as bytes_received, that callback's only invocation, and
\* leaves receive False.
C24_OvershootCompletes ==
    [][ /\ (pc_rx = "progress" /\ file_position > file_length) =>
              pc_rx' = "fin_cancel"
        /\ (pc_rx = "fin_callback" /\ file_position > file_length
              /\ done_callback # None) =>
              done_calls' = Append(done_calls,
                 [cb |-> done_callback, name |-> filename, bytes |-> file_position,
                  stream |-> datastream, err |-> "none"])
        /\ (pc_rx = "fin_receive" /\ file_position > file_length) =>
              /\ receive' = FALSE
              /\ pc_rx' = "idle"
              /\ done_callback # None => NumCalls(done_callback) = 1 ]_vars

C24_Witness ==
    /\ Quiescent
    /\ receive = FALSE
    /\ file_length > 0
    /\ file_position > file_length
    /\ done_calls # <<>>
    /\ Last(done_calls).err = "none"
    /\ Last(done_calls).bytes = file_position
    /\ Len(done_calls) = 1

Min(a, b) == IF a < b THEN a ELSE b

\* C25: the value handed to progress_callback for an accepted chunk is
\* 100 * file_position / file_length, at most 100 also when the chunk
\* overshoots file_length, and 0 when file_length is 0.
C25_ProgressClamped ==
    [][ progress_calls' # progress_calls =>
          LET p == Last(progress_calls').progress
          IN  /\ Len(progress_calls') = Len(progress_calls) + 1
              /\ IF file_length = 0 THEN p.num = 0
                 ELSE p.num * file_length =
                         Min(100 * file_position, 100 * file_length) * p.den ]_vars

\* C26: while no transfer is in flight, a chunk handed to
\* response_message_received and a run of _on_chunk_timeout or
\* _on_overall_timeout invoke no callback, write nothing, arm or cancel no
\* timer and leave the fields, file_position among them, as they were.
C26_NoOpWhenIdle ==
    [][ /\ (pc_rx = "idle" /\ nchunks' # nchunks /\ receive = FALSE) =>
              /\ pc_rx' = "idle"
              /\ UNCHANGED <<fieldVars, receive, timerVars, obsVars>>
        /\ \A t \in TimerIds :
              (timers[t].st = "expired" /\ timers'[t].st # "expired"
                 /\ receive = FALSE) =>
                 /\ timers'[t].st = "done"
                 /\ \A u \in TimerIds \ {t} : timers'[u] = timers[u]
                 /\ UNCHANGED <<fieldVars, receive, chunk_timer, overall_timer,
                                obsVars>> ]_vars

\* a transfer completed, then a late timeout handler ran and a chunk arrived
C26_Witness ==
    /\ Quiescent
    /\ receive = FALSE
    /\ Len(done_calls) = 1
    /\ done_calls[1].err = "none"
    /\ rx_dropped # "none"
    /\ \E t \in TimerIds : timers[t].st = "done"

\* C27: once the done_callback of the transfer in hand has been invoked, no
\* step of the chunk path or of a timeout path writes to the sink, changes
\* file_position, invokes progress_callback or arms a timer (the steps of a
\* get_file that starts the next transfer aside).
C27_NoEffectAfterDone ==
    [][ (done_callback # None /\ NumCalls(done_callback) >= 1 /\ pc_app' = pc_app)
        => /\ written' = written
           /\ file_position' = file_position
           /\ progress_calls' = progress_calls
           /\ \A t \in TimerIds : timers'[t].st = "armed" => timers[t].st = "armed"
      ]_vars

\* C28: a chunk processed in flight replaces the chunk timer by a newly armed
\* one, and a chunk timer's handler ends the transfer only when that timer
\* is still the current chunk timer, not one a later chunk has replaced.
C28_SupersededTimerHarmless ==
    [][ /\ pc_rx = "reset" =>
              /\ chunk_timer' # chunk_timer
              /\ timers'[chunk_timer'] = [kind |-> "chunk", st |-> "armed", xf |-> xfers]
              /\ chunk_timer # None => timers'[chunk_timer].st # "armed"
        /\ \A t \in TimerIds :
              (timers[t].kind = "chunk" /\ timers[t].st = "expired"
                 /\ timers'[t].st = "callback")
              => chunk_timer = t ]_vars

\* C29: whenever a transfer has terminated and no handler is in the middle of
\* executing, receive being False implies that the chunk timer handle and the
\* overall timer handle are both None, and no timer remains armed
C29_NoTimerAfterTermination ==
    (xfers >= 1 /\ Quiescent /\ receive = FALSE)
        => /\ chunk_timer = None
           /\ overall_timer = None
           /\ \A t \in TimerIds : timers[t].st # "armed"

\* the chunk path is between its write to the sink and its file_position update
MidChunk == pc_rx = "position"

\* C30: within one transfer file_position never decreases; it changes only by
\* an accepted get_file, which sets it to 0, or by an accepted chunk (one whose
\* offset is file_position), which adds its data length; outside the chunk
\* path's update it is the number of bytes written to the sink and, while every
\* chunk delivered was accepted, the sum of the delivered lengths; and it is the
\* bytes_received value of every done_callback invocation.
C30_PositionAccounting ==
    [][ /\ xfers' = xfers => file_position' >= file_position
        /\ xfers' # xfers => (pc_app = "gf_init" /\ file_position' = 0)
        /\ (xfers' = xfers /\ file_position' # file_position) =>
              /\ pc_rx = "position"
              /\ rx_msg # NoMsg
              /\ rx_msg.offset = file_position
              /\ file_position' = file_position + rx_msg.len
        /\ (datastream' # None /\ ~MidChunk') => written'[datastream'] = file_position'
        /\ (xfers' > 0 /\ RxIdle' /\ rx_dropped' = "none" /\ rx_next' # OutOfOrder)
              => file_position' = rx_next'
        /\ done_calls' # done_calls => Last(done_calls').bytes = file_position'
      ]_vars

\* two chunks accepted, written to the sink and reported
C30_Witness ==
    /\ datastream # None
    /\ file_position = 2
    /\ written[datastream] = 2
    /\ Len(progress_calls) = 2
    /\ done_calls # <<>>
    /\ Last(done_calls).bytes = 2
    /\ Quiescent

\* ------------------------------------------------- more claims on the sender

\* C31: a response latched before a send_async call took the send lock is never
\* what that call returns: taking the lock clears the event and the latched
\* response before the write, so a message the call returns was decoded after
\* the call began.
C31_NoStaleResponse ==
    /\ \A t \in Tasks :
          (send_ret[t].st = "returned" /\ send_ret[t].value # None)
             => send_ret[t].value > send_from[t]
    /\ \A t \in Tasks :
          (pc_send[t] = "write" /\ Len(msgs) = send_from[t])
             => (send_lock = t /\ current_response_message = None /\ ~response_event)

\* a call timed out, its late reply was latched, and a later call that began
\* after it returned a response of its own
C31_Witness ==
    \E t, u \in Tasks :
       /\ send_ret[t] = Returned(None, "timeout")
       /\ send_ret[u].st = "returned"
       /\ send_ret[u].via = "response"
       /\ send_ret[u].value # None
       /\ \E i \in 1..send_from[u] : msgs[i] >= ResponseMin

\* C32: a send_async called with wait_for_response False returns None after
\* the write, also when a response was delivered to the sender while the write
\* was in progress.
C32_NoWaitReturnsNone ==
    \A t \in Tasks :
       (send_ret[t].st = "returned" /\ ~send_args[t].wait_for_response)
          => send_ret[t].value = None

\* --------------------------------------------- claims on listener dispatch

\* the listeners 1..n in registration order
Registered(n) == [k \in 1..n |-> k]

\* C33: a dispatch notifies exactly the listeners registered when it began,
\* each once and in order, whatever is added to the collection while it is in
\* progress: it never hands a message to more listeners than there were, and
\* when it has gone through the collection it has handed it to each of them.
C33_DispatchOverSnapshot ==
    /\ Len(cb.handed) <= cb.n0
    /\ (cb_pc = "idle" /\ ~cb.aborted) => cb.handed = Registered(cb.n0)

\* C34: a listener that blocks, of whatever category, never keeps the
\* transport's notification callback from returning: the callback is never
\* inside a listener's code, waiting for it to return.
C34_CallbackNeverWaits == cb_pc # "in_listener"

\* C35: neither on_uart_tx_data nor on_ble_message_received raises to the
\* transport, also for a notification that arrives after the reader was
\* stopped while listeners are registered.
C35_CallbacksNeverRaise == cb_raised = FALSE

\* ------------------------------------ claims on transfers that follow another

\* nothing is running and nothing is left to run: the threads are idle and no
\* timer is armed
AtRest == Quiescent /\ \A t \in TimerIds : timers[t].st # "armed"

\* C36: every transfer accepted by get_file terminates with its done_callback
\* invoked: once chunks have stopped arriving and every timer has run, a
\* transfer that was not ended by stop_listening has receive False and, when a
\* done_callback was given, that callback has been invoked.
C36_TransferTerminates ==
    (xfers >= 1 /\ xfers \notin stopped /\ AtRest)
        => /\ receive = FALSE
           /\ done_callback # None => NumCalls(done_callback) >= 1

\* C37: a chunk timer or overall timer armed for one transfer never terminates
\* a later one: when its handler runs after get_file has started another
\* transfer, the handler leaves receive as it is and invokes no done_callback.
C37_StaleTimerHarmless ==
    [][ \A t \in TimerIds :
          (/\ TimerRunning(t)
           /\ timers'[t].st # timers[t].st
           /\ timers[t].xf # xfers)
          => /\ receive' = receive
             /\ done_calls' = done_calls ]_vars

\* C38: once the done_callback of a transfer has been invoked and the handler
\* that invoked it is over, the receiver is not busy, also when the callback
\* raised: receive is False and a get_file call is not answered with -1.
C38_NotBusyAfterCallback ==
    [][ (/\ Quiescent
         /\ done_callback # None
         /\ NumCalls(done_callback) >= 1)
        => /\ receive = FALSE
           /\ gf_result' # gf_result => gf_result' # <<-1>> ]_vars

\* C39: when the send of the GetFile request raises inside get_file, no
\* transfer is left in flight: after that call receive is False, no timer is
\* armed, and done_callback is not invoked later for the request.
C39_FailedSendLeavesNothing ==
    [][ (pc_app = "idle" /\ gf_result = <<SendFailed>>)
        => /\ receive = FALSE
           /\ \A t \in TimerIds : timers[t].st # "armed"
           /\ done_calls' = done_calls ]_vars

\* --------------------------------------------- claims on the sender's progress

\* a call made with a timeout that is not None
FiniteTimeout(t) == pc_send[t] # "idle" /\ send_args[t].timeout # None

\* C40: every send_async call with a finite timeout eventually returns, the
\* transport write returning or raising, and every exit path of a call
\* releases the send lock.
C40_FiniteTimeoutReturns ==
    /\ \A t \in Tasks :
          (pc_send[t] = "acquire" /\ FiniteTimeout(t)) ~> (pc_send[t] = "done")
    /\ [][ \A t \in Tasks :
             (pc_send[t] # "done" /\ pc_send'[t] = "done") => send_lock' = None ]_vars

====
